---------------------------- MODULE Spec2Model ----------------------------
(***************************************************************************)
(* Model of the MATRIX backend core:                                       *)
(*   - GlobalConnectionManager (connection_manager.py): the shared pool of *)
(*     transport clients, its per-account connect lock and operation lock. *)
(*   - AccountLockManager, the operation registry, the batched DB writer   *)
(*     and the sequential multi-account runner (api_server.py).            *)
(*   - EventProcessor and SyncEngine acting on one conversation of the     *)
(*     local mirror (inbox_manager.py, account_manager.py).                *)
(*                                                                         *)
(* Coroutines of one asyncio loop are cut at their await points: what runs *)
(* between two awaits is one action.  Threads are cut at every access to   *)
(* shared state that another thread can observe.                           *)
(*                                                                         *)
(* Specifications: SpecPool (tasks calling the pool), SpecOps (operations  *)
(* started, run and cancelled), SpecFlush (an operation and the flush      *)
(* worker), SpecBulk (an operation and the inbox on the same pool),        *)
(* SpecInbox (events and sync jobs on one conversation), SpecSync (a       *)
(* full_sync or dialog sync running alone).                                *)
(***************************************************************************)
EXTENDS Integers, Sequences, FiniteSets, TLC

(***************************************************************************)
(* Bounds                                                                  *)
(***************************************************************************)
MaxClients == 2
\* the sends a run records on top of the ledger it started with
MaxSends == 2

Accounts == {"a1", "a2"}
Tasks == {1, 2}

\* register_events as the inbox passes it (the default of get_client)
RegisterChoices == {TRUE}

\* api_id and api_hash are passed to get_client, or left at their default None
CredChoices == {TRUE, FALSE}

NoTask == 0
NoClient == 0
NoEntry == [client |-> NoClient, handlers |-> FALSE, in_use_by |-> "None"]

VARIABLES
  \* ---- GlobalConnectionManager ----
  clients,      \* _clients: account -> ConnectionInfo (NoEntry when absent)
  connected,    \* the TelegramClient objects <<account, n>> whose transport is connected
  locks,        \* _locks: account -> task holding the connect lock (NoTask when free)
  operation_locks, \* _operation_locks: account -> task holding the operation lock
  task          \* the coroutines calling into the pool: task -> frame

poolVars == <<clients, connected, locks, operation_locks, task>>

VARIABLES
  account_locks,      \* AccountLockManager._locks: account -> the operation whose thread
                      \* locked the threading.Lock (Unlocked: nobody)
  op_status,          \* active_operations[id]['status'] ("absent" before creation)
  op_phones,          \* active_operations[id]['phones']
  op_accounts,        \* active_operations[id]['accounts'][phone]
  run,                \* the thread of _execute_multi_account_operation: pc, index in phones
  mgr_client,         \* mgr.client.is_connected() of the operation's own manager
  progress_queue,     \* _progress_write_queue: the dict in insertion order
  log_queue,          \* _log_write_queue: the (operation, phone) that have entries queued
  db_accounts,        \* table operation_accounts
  db_status,          \* table operations, column status
  db_logs,            \* table operation_logs: the (operation, phone) that have rows
  flush               \* per flushing thread: pc and its queue_copy of either queue

opsVars == <<account_locks, op_status, op_phones, op_accounts, run, mgr_client,
             progress_queue, log_queue, db_accounts, db_status, db_logs, flush>>

VARIABLES
  remote_last,   \* Telegram: the messages 1..remote_last exist in the dialog with the peer
  conv,          \* the row of inbox_conversations for (account, peer)
  messages,      \* the msg_id of the rows of inbox_messages for (account, peer)
  inbox_events,  \* table inbox_events: rows logged per event type
  ev,            \* the handle_new_message tasks of the inbox loop: task -> frame
  job            \* the SyncEngine / fetch_full_history tasks of the inbox loop

inboxVars == <<remote_last, conv, messages, inbox_events, ev, job>>

VARIABLES
  inbox_messages,  \* table inbox_messages with its columns, for one (account, peer)
  insert_call      \* the last call of inbox_insert_message: its row and what it returned

tableVars == <<inbox_messages, insert_call>>

VARIABLES
  now,           \* the clock (datetime.now(), CURRENT_TIMESTAMP), in ticks
  limiter,       \* a DMRateLimiter of the account: _sent_to_ids, _last_dm_time
  dm_history,    \* table inbox_dm_history of the account, in insertion order
  dm_answer,     \* the last call of can_send: its arguments and what it returned
  last_record    \* when record_sent was last called for the account (None: never)

limiterVars == <<now, limiter, dm_history, dm_answer, last_record>>

VARIABLES
  sync_run,      \* a sync_dialogs call of the account: position, dialogs fetched, SyncResult
  peer_rows      \* the rows of inbox_conversations of the account: peer -> row

dialogVars == <<sync_run, peer_rows>>

VARIABLES
  connection_state,  \* table inbox_connection_state: account -> state
  connect_call       \* the connect_account call of the inbox loop: position, account, outcome

connectVars == <<connection_state, connect_call>>

VARIABLES
  transport_call   \* a coroutine of the inbox using the pooled client: the request it awaits

callVars == <<transport_call>>

VARIABLES
  shutdown_run     \* GlobalConnectionManager.shutdown: _shutting_down, the phones still to visit

shutdownVars == <<shutdown_run>>

VARIABLES
  backfill_run,    \* a process_pending_backfills call: its pending list, position, outcomes
  stored           \* the msg_id of the rows of inbox_messages of the account: peer -> ids

backfillVars == <<backfill_run, stored>>

VARIABLES
  unread_row,      \* the row of inbox_conversations as handle_new_message writes it
  nm,              \* the handle_new_message tasks of one conversation: task -> frame
  delivered        \* the NewMessage events Telegram delivered: incoming, outgoing

unreadVars == <<unread_row, nm, delivered>>

\* EventProcessor._typing_timers, the expire_typing tasks asleep on the loop,
\* the last is_typing broadcast to each room, the seconds since the last
\* typing event of each key, and whether the pending timer replaced another
VARIABLES typing_timers, sleeping, typing_shown, since, rearmed
typingVars == <<typing_timers, sleeping, typing_shown, since, rearmed>>

vars == <<poolVars, opsVars, inboxVars, tableVars, limiterVars, dialogVars, connectVars, callVars, shutdownVars, backfillVars, unreadVars, typingVars>>

otherThanPool == <<opsVars, inboxVars, tableVars, limiterVars, dialogVars, connectVars, callVars, shutdownVars, backfillVars, unreadVars, typingVars>>
otherThanOps == <<poolVars, inboxVars, tableVars, limiterVars, dialogVars, connectVars, callVars, shutdownVars, backfillVars, unreadVars, typingVars>>
otherThanInbox == <<poolVars, opsVars, tableVars, limiterVars, dialogVars, connectVars, callVars, shutdownVars, backfillVars, unreadVars, typingVars>>
otherThanTable == <<poolVars, opsVars, inboxVars, limiterVars, dialogVars, connectVars, callVars, shutdownVars, backfillVars, unreadVars, typingVars>>
otherThanLimiter == <<poolVars, opsVars, inboxVars, tableVars, dialogVars, connectVars, callVars, shutdownVars, backfillVars, unreadVars, typingVars>>
otherThanDialog == <<poolVars, opsVars, inboxVars, tableVars, limiterVars, connectVars, callVars, shutdownVars, backfillVars, unreadVars, typingVars>>
otherThanConnect == <<poolVars, opsVars, inboxVars, tableVars, limiterVars, dialogVars, callVars, shutdownVars, backfillVars, unreadVars, typingVars>>
otherThanPoolConnect == <<opsVars, inboxVars, tableVars, limiterVars, dialogVars, callVars, shutdownVars, backfillVars, unreadVars, typingVars>>
otherThanCall == <<poolVars, opsVars, inboxVars, tableVars, limiterVars, dialogVars, connectVars, shutdownVars, backfillVars, unreadVars, typingVars>>
otherThanPoolShutdown == <<opsVars, inboxVars, tableVars, limiterVars, dialogVars, connectVars, callVars, backfillVars, unreadVars, typingVars>>
otherThanDialogBackfill == <<poolVars, opsVars, inboxVars, tableVars, limiterVars, connectVars, callVars, shutdownVars, unreadVars, typingVars>>
otherThanUnread == <<poolVars, opsVars, inboxVars, tableVars, limiterVars, dialogVars, connectVars, callVars, shutdownVars, backfillVars, typingVars>>
otherThanTyping == <<poolVars, opsVars, inboxVars, tableVars, limiterVars, dialogVars, connectVars, callVars, shutdownVars, backfillVars, unreadVars>>

\* res: what the last get_client of the task returned ("-" before any return)
\* creds: api_id and api_hash were passed to the call
IdleFrame == [pc |-> "idle", phone |-> "a1", cid |-> NoClient, reg |-> FALSE,
              lease |-> FALSE, creds |-> TRUE, res |-> "-"]

\* the caller of get_client(a) after the call: it holds what was returned
Returned(a, res) == [IdleFrame EXCEPT !.phone = a, !.res = res]

InPool(a) == clients[a].client # NoClient

\* GlobalConnectionManager.is_connected
is_connected(a) == InPool(a) /\ <<a, clients[a].client>> \in connected

\* asyncio.Lock.locked() of _get_lock(phone)
LockFree(a) == locks[a] = NoTask

OpLockFreeMut(a) == TRUE
\* asyncio.Lock.locked() of _get_operation_lock(phone)
OpLockFree(a) == operation_locks[a] = NoTask

\* the connected transport clients that were built for account a
LiveClients(a) == {c \in connected : c[1] = a}

\* TelegramClient(...) builds a new object: an id no live reference uses
\* (client objects nobody refers to any more are forgotten)
Referenced(a) ==
  {c[2] : c \in LiveClients(a)} \cup {clients[a].client}
    \cup {task[t].cid : t \in {u \in Tasks : task[u].phone = a}}
CanBuild(a) == \E n \in 1..MaxClients : n \notin Referenced(a)
NewClient(a) == CHOOSE n \in 1..MaxClients :
                  /\ n \notin Referenced(a)
                  /\ \A m \in 1..MaxClients : m \notin Referenced(a) => n <= m

PoolInit ==
  /\ clients = [a \in Accounts |-> NoEntry]
  /\ connected = {}
  /\ locks = [a \in Accounts |-> NoTask]
  /\ operation_locks = [a \in Accounts |-> NoTask]
  /\ task = [t \in Tasks |-> IdleFrame]

(***************************************************************************)
(* get_client returns `res` to its caller.  A plain caller is done; inside *)
(* with_client the code after the call runs without suspension: a None     *)
(* raises RuntimeError and leaves the operation lock, a client is tagged   *)
(* in_use_by and handed to the body.                                       *)
(***************************************************************************)
GcReturn(t, res, cid, pool1) ==
  LET f == task[t] a == f.phone IN
  IF ~f.lease
  THEN /\ task' = [task EXCEPT ![t] = Returned(a, res)]
       /\ clients' = pool1
       /\ UNCHANGED operation_locks
  ELSE IF res = "None"
       THEN /\ task' = [task EXCEPT ![t] = Returned(a, res)]
            /\ clients' = pool1
            /\ operation_locks' = [operation_locks EXCEPT ![a] = NoTask]
       ELSE /\ task' = [task EXCEPT ![t] = [f EXCEPT !.pc = "wc_body", !.cid = cid,
                                                   !.res = res]]
            /\ clients' = IF pool1[a].client # NoClient
                          THEN [pool1 EXCEPT ![a].in_use_by = "operation"]
                          ELSE pool1
            /\ UNCHANGED operation_locks

\* get_client up to its first suspension: the connected check, the
\* credentials (those of the pool entry when none were passed; None is
\* returned when there is no entry either), then the connect lock (taken at
\* once when free, else the caller waits for it).
GcBegin(t, f) ==
  LET a == f.phone IN
  IF is_connected(a)
  THEN /\ task' = [task EXCEPT ![t] =
                     IF f.lease
                     THEN [f EXCEPT !.pc = "wc_body", !.cid = clients[a].client,
                                    !.res = "client"]
                     ELSE Returned(a, "client")]
       /\ clients' = IF f.lease THEN [clients EXCEPT ![a].in_use_by = "operation"] ELSE clients
       /\ UNCHANGED locks
  ELSE IF ~f.creds /\ ~InPool(a)
  THEN /\ task' = [task EXCEPT ![t] = [Returned(a, "None") EXCEPT !.creds = FALSE]]
       /\ UNCHANGED <<clients, locks>>
  ELSE /\ clients' = clients
       /\ IF LockFree(a)
          THEN /\ locks' = [locks EXCEPT ![a] = t]
               /\ task' = [task EXCEPT ![t] = [f EXCEPT !.pc = "gc_connect", !.creds = TRUE]]
          ELSE /\ locks' = locks
               /\ task' = [task EXCEPT ![t] = [f EXCEPT !.pc = "gc_wait", !.creds = TRUE]]

\* a caller enters get_client(phone, api_id, api_hash, ..., register_events)
GetClient(t, a, reg, creds) ==
  /\ task[t].pc = "idle"
  /\ GcBegin(t, [IdleFrame EXCEPT !.phone = a, !.reg = reg, !.creds = creds])
  /\ UNCHANGED <<connected, operation_locks>>
  /\ UNCHANGED otherThanPool

\* a waiter obtains the connect lock: async with self._get_lock(clean_phone)
GcAcquire(t) ==
  /\ task[t].pc = "gc_wait"
  /\ LockFree(task[t].phone)
  /\ locks' = [locks EXCEPT ![task[t].phone] = t]
  /\ task' = [task EXCEPT ![t].pc = "gc_connect"]
  /\ UNCHANGED <<clients, connected, operation_locks>>
  /\ UNCHANGED otherThanPool

\* client = TelegramClient(...); await client.connect() succeeds
GcConnectOk(t) ==
  /\ task[t].pc = "gc_connect"
  /\ CanBuild(task[t].phone)
  /\ connected' = connected \cup {<<task[t].phone, NewClient(task[t].phone)>>}
  /\ task' = [task EXCEPT ![t].pc = "gc_auth", ![t].cid = NewClient(task[t].phone)]
  /\ UNCHANGED <<clients, locks, operation_locks>>
  /\ UNCHANGED otherThanPool

GcConnectFailMut(t) ==
  /\ task[t].pc = "gc_connect"
  /\ GcReturn(t, "None", NoClient, clients)
  /\ UNCHANGED <<connected, locks>>
  /\ UNCHANGED otherThanPool
\* await client.connect() raises: except Exception -> return None
GcConnectFail(t) ==
  /\ task[t].pc = "gc_connect"
  /\ locks' = [locks EXCEPT ![task[t].phone] = NoTask]
  /\ GcReturn(t, "None", NoClient, clients)
  /\ UNCHANGED connected
  /\ UNCHANGED otherThanPool

\* is_user_authorized() is True, get_me() answers: the ConnectionInfo is stored
GcStore(t) ==
  LET f == task[t] a == f.phone IN
  /\ f.pc = "gc_auth"
  /\ locks' = [locks EXCEPT ![a] = NoTask]
  /\ GcReturn(t, "client", f.cid,
              [clients EXCEPT ![a] = [client |-> f.cid, handlers |-> f.reg,
                                      in_use_by |-> "None"]])
  /\ UNCHANGED connected
  /\ UNCHANGED otherThanPool

\* is_user_authorized() is False: await client.disconnect(); return None
GcNotAuthorized(t) ==
  LET f == task[t] IN
  /\ f.pc = "gc_auth"
  /\ connected' = connected \ {<<f.phone, f.cid>>}
  /\ locks' = [locks EXCEPT ![f.phone] = NoTask]
  /\ GcReturn(t, "None", NoClient, clients)
  /\ UNCHANGED otherThanPool

GcAuthRaisesMut(t) ==
  LET f == task[t] IN
  /\ f.pc = "gc_auth"
  /\ locks' = [locks EXCEPT ![f.phone] = NoTask]
  /\ GcReturn(t, "None", NoClient, [clients EXCEPT ![f.phone] = NoEntry])
  /\ UNCHANGED connected
  /\ UNCHANGED otherThanPool
\* is_user_authorized()/get_me() raise (AuthKeyUnregisteredError,
\* UserDeactivatedBanError, any Exception): return None, no disconnect
GcAuthRaises(t) ==
  LET f == task[t] IN
  /\ f.pc = "gc_auth"
  /\ locks' = [locks EXCEPT ![f.phone] = NoTask]
  /\ GcReturn(t, "None", NoClient, clients)
  /\ UNCHANGED connected
  /\ UNCHANGED otherThanPool

\* the transport of a client drops (network loss, remote close)
ConnectionLost(c) ==
  /\ c \in connected
  /\ connected' = connected \ {c}
  /\ UNCHANGED <<clients, locks, operation_locks, task>>
  /\ UNCHANGED otherThanPool

\* disconnect_account up to its first suspension: nothing to do when the
\* account has no entry, else the connect lock and the body
DcBegin(t, a) ==
  /\ task[t].pc = "idle"
  /\ IF ~InPool(a)
     THEN /\ task' = [task EXCEPT ![t] = IdleFrame]
          /\ UNCHANGED locks
     ELSE IF LockFree(a)
          THEN /\ locks' = [locks EXCEPT ![a] = t]
               /\ task' = [task EXCEPT ![t] = [IdleFrame EXCEPT !.phone = a, !.pc = "dc_body"]]
          ELSE /\ locks' = locks
               /\ task' = [task EXCEPT ![t] = [IdleFrame EXCEPT !.phone = a, !.pc = "dc_wait"]]
  /\ UNCHANGED <<clients, connected, operation_locks>>

\* a caller enters disconnect_account(phone)
DisconnectAccount(t, a) ==
  /\ DcBegin(t, a)
  /\ UNCHANGED otherThanPool

DcAcquire(t) ==
  /\ task[t].pc = "dc_wait"
  /\ LockFree(task[t].phone)
  /\ locks' = [locks EXCEPT ![task[t].phone] = t]
  /\ task' = [task EXCEPT ![t].pc = "dc_body"]
  /\ UNCHANGED <<clients, connected, operation_locks>>
  /\ UNCHANGED otherThanPool

\* under the lock: conn_info = self._clients.get(phone); a connected client
\* is disconnected (await), then the entry is deleted
DcBody(t) ==
  LET f == task[t] a == f.phone IN
  /\ f.pc = "dc_body"
  /\ IF is_connected(a)
     THEN /\ connected' = connected \ {<<a, clients[a].client>>}
          /\ task' = [task EXCEPT ![t].pc = "dc_del"]
          /\ UNCHANGED <<clients, locks>>
     ELSE /\ clients' = [clients EXCEPT ![a] = NoEntry]
          /\ locks' = [locks EXCEPT ![a] = NoTask]
          /\ task' = [task EXCEPT ![t] = IdleFrame]
          /\ UNCHANGED connected
  /\ UNCHANGED operation_locks
  /\ UNCHANGED otherThanPool

\* del self._clients[clean_phone] after the awaited disconnect
DcDelete(t) ==
  LET f == task[t] a == f.phone IN
  /\ f.pc = "dc_del"
  /\ clients' = [clients EXCEPT ![a] = NoEntry]
  /\ locks' = [locks EXCEPT ![a] = NoTask]
  /\ task' = [task EXCEPT ![t] = IdleFrame]
  /\ UNCHANGED <<connected, operation_locks>>
  /\ UNCHANGED otherThanPool

\* with_client: async with self._get_operation_lock(phone), then get_client
WithClient(t, a) ==
  /\ task[t].pc = "idle"
  /\ IF OpLockFree(a)
     THEN /\ GcBegin(t, [IdleFrame EXCEPT !.phone = a, !.lease = TRUE, !.reg = TRUE])
          /\ operation_locks' = [operation_locks EXCEPT ![a] = t]
     ELSE /\ task' = [task EXCEPT ![t] = [IdleFrame EXCEPT !.phone = a, !.lease = TRUE,
                                                          !.reg = TRUE, !.pc = "wc_wait"]]
          /\ UNCHANGED <<clients, locks, operation_locks>>
  /\ UNCHANGED connected
  /\ UNCHANGED otherThanPool

\* a waiter obtains the operation lock and runs into get_client
WcAcquire(t) ==
  /\ task[t].pc = "wc_wait"
  /\ OpLockFree(task[t].phone)
  /\ operation_locks' = [operation_locks EXCEPT ![task[t].phone] = t]
  /\ GcBegin(t, task[t])
  /\ UNCHANGED connected
  /\ UNCHANGED otherThanPool

WcExitMut(t) ==
  LET f == task[t] a == f.phone IN
  /\ f.pc = "wc_body"
  /\ connected' = connected \ {<<a, clients[a].client>>}
  /\ clients' = [clients EXCEPT ![a] = NoEntry]
  /\ operation_locks' = [operation_locks EXCEPT ![a] = NoTask]
  /\ task' = [task EXCEPT ![t] = IdleFrame]
  /\ UNCHANGED locks
  /\ UNCHANGED otherThanPool
\* the body of the lease ends (normally or by an exception): finally clears
\* in_use_by when the entry is still there; the operation lock is released
WcExit(t) ==
  LET f == task[t] a == f.phone IN
  /\ f.pc = "wc_body"
  /\ clients' = IF InPool(a) THEN [clients EXCEPT ![a].in_use_by = "None"] ELSE clients
  /\ operation_locks' = [operation_locks EXCEPT ![a] = NoTask]
  /\ task' = [task EXCEPT ![t] = IdleFrame]
  /\ UNCHANGED <<connected, locks>>
  /\ UNCHANGED otherThanPool

(***************************************************************************)
(* Operations: AccountLockManager, the registry active_operations, the     *)
(* batched DB writer and _execute_multi_account_operation (api_server.py), *)
(* with the operations tables of account_manager.py.                       *)
(***************************************************************************)
Ops == {1, 2}
Worker == 0                       \* the db_flush_worker thread
Flushers == Ops \cup {Worker}     \* threads that run the two flush functions

\* one progress update: the progress, total, status and error of
\* update_account_progress (message and stats are not read by anything here)
Data(p, tot, st, err) == [progress |-> p, total |-> tot, status |-> st, error |-> err]
NoData == Data(0, 0, "none", "None")

\* a threading.Lock nobody has locked
Unlocked == 0
Pending == Data(0, 0, "pending", "None")

EmptyProgress == [o \in Ops |-> [a \in Accounts |-> NoData]]
EmptyLogs == {}
IdleFlush == [pc |-> "idle", progress |-> << >>, logs |-> EmptyLogs]

OpsInit ==
  /\ account_locks = [a \in Accounts |-> Unlocked]
  /\ op_status = [o \in Ops |-> "absent"]
  /\ op_phones = [o \in Ops |-> << >>]
  /\ op_accounts = EmptyProgress
  /\ run = [o \in Ops |-> [pc |-> "none", idx |-> 0]]
  /\ mgr_client = [o \in Ops |-> FALSE]
  /\ progress_queue = << >>
  /\ log_queue = EmptyLogs
  /\ db_accounts = EmptyProgress
  /\ db_status = [o \in Ops |-> "absent"]
  /\ db_logs = EmptyLogs
  /\ flush = [f \in Flushers |-> IdleFlush]

Range(s) == {s[i] : i \in DOMAIN s}

\* the phone lists a request can carry: no phone twice
PhoneLists == {s \in UNION {[1..n -> Accounts] : n \in 1..Cardinality(Accounts)} :
                 Cardinality(Range(s)) = Len(s)}

\* the requests of SpecOps: operation 1 over any list of accounts, operation 2
\* on a single account, competing with operation 1 for it
OpsRequests == {<<1, ph>> : ph \in PhoneLists}
                 \cup {<<2, ph>> : ph \in {s \in PhoneLists : Len(s) = 1}}

Terminal == {"completed", "error"}

\* the account the runner of o is at
Cur(o) == op_phones[o][run[o].idx]

\* AccountLockManager.release: unlocks whoever locked; RuntimeError of an
\* unlocked lock is swallowed
release(lk, a) == [lk EXCEPT ![a] = Unlocked]

\* update_account_progress: the in-memory snapshot (only for a registered
\* operation and one of its accounts), then the write queue
Snapshot(acc, o, a, d) ==
  IF op_status[o] # "absent" /\ a \in Range(op_phones[o]) THEN [acc EXCEPT ![o][a] = d] ELSE acc
Queued(q, o, a, d) ==
  IF op_status[o] = "absent" THEN q
  ELSE IF \E i \in DOMAIN q : q[i].op = o /\ q[i].phone = a
       THEN [i \in DOMAIN q |-> IF q[i].op = o /\ q[i].phone = a
                                 THEN [q[i] EXCEPT !.data = d] ELSE q[i]]
       ELSE Append(q, [op |-> o, phone |-> a, data |-> d])

\* add_account_log for (o, a): the entries of one key are not told apart
Logs(l, o, a) == l \cup {<<o, a>>}

\* POST /api/operations/start: refused while one of the phones is locked,
\* else create_operation, db_create_operation and the runner thread
CreateOperation(o, phones) ==
  /\ op_status[o] = "absent"
  /\ \A a \in Range(phones) : account_locks[a] = Unlocked
  /\ op_status' = [op_status EXCEPT ![o] = "pending"]
  /\ op_phones' = [op_phones EXCEPT ![o] = phones]
  /\ op_accounts' = [op_accounts EXCEPT ![o] =
                       [a \in Accounts |-> IF a \in Range(phones) THEN Pending ELSE NoData]]
  /\ db_status' = [db_status EXCEPT ![o] = "pending"]
  /\ db_accounts' = [db_accounts EXCEPT ![o] =
                       [a \in Accounts |-> IF a \in Range(phones) THEN Pending ELSE NoData]]
  /\ run' = [run EXCEPT ![o] = [pc |-> "next", idx |-> 1]]
  /\ UNCHANGED <<account_locks, mgr_client, progress_queue, log_queue,
                 db_logs, flush>>
  /\ UNCHANGED otherThanOps

\* for phone in phones: add_account_log("Starting operation for account...")
\* and the call of run_for_account; after the last phone complete_operation
RunNext(o) ==
  /\ run[o].pc = "next"
  /\ IF run[o].idx <= Len(op_phones[o])
     THEN /\ run' = [run EXCEPT ![o].pc = "acquire"]
          /\ log_queue' = Logs(log_queue, o, Cur(o))
     ELSE /\ run' = [run EXCEPT ![o].pc = "complete"]
          /\ UNCHANGED <<log_queue>>
  /\ UNCHANGED <<account_locks, op_status, op_phones, op_accounts, mgr_client,
                 progress_queue, db_accounts, db_status, db_logs, flush>>
  /\ UNCHANGED otherThanOps

\* account_locks.acquire(phone, blocking=True, timeout=60) succeeds; the
\* 'Starting' log and the (0, 100, running) progress follow
RunAcquire(o) ==
  LET a == Cur(o) IN
  /\ run[o].pc = "acquire"
  /\ account_locks[a] = Unlocked
  /\ account_locks' = [account_locks EXCEPT ![a] = o]
  /\ log_queue' = Logs(log_queue, o, a)
  /\ op_accounts' = Snapshot(op_accounts, o, a, Data(0, 100, "running", "None"))
  /\ progress_queue' = Queued(progress_queue, o, a, Data(0, 100, "running", "None"))
  /\ run' = [run EXCEPT ![o].pc = "check_cancel"]
  /\ UNCHANGED <<op_status, op_phones, mgr_client, db_accounts, db_status,
                 db_logs, flush>>
  /\ UNCHANGED otherThanOps

RunLockTimeoutMut(o) ==
  /\ run[o].pc = "acquire"
  /\ account_locks[Cur(o)] # Unlocked
  /\ UNCHANGED vars
\* the acquire times out while the lock stays held: log, (0, 0, error),
\* return None; the loop goes on with the next phone
RunLockTimeout(o) ==
  LET a == Cur(o) IN
  /\ run[o].pc = "acquire"
  /\ account_locks[a] # Unlocked
  /\ log_queue' = Logs(log_queue, o, a)
  /\ op_accounts' = Snapshot(op_accounts, o, a, Data(0, 0, "error", "Lock timeout"))
  /\ progress_queue' = Queued(progress_queue, o, a, Data(0, 0, "error", "Lock timeout"))
  /\ run' = [run EXCEPT ![o] = [pc |-> "next", idx |-> @.idx + 1]]
  /\ UNCHANGED <<account_locks, op_status, op_phones, mgr_client, db_accounts, db_status,
                 db_logs, flush>>
  /\ UNCHANGED otherThanOps

\* op.get('status') == 'cancelled': release the lock and return None
RunCancelled(o) ==
  LET a == Cur(o) IN
  /\ run[o].pc = "check_cancel"
  /\ op_status[o] = "cancelled"
  /\ account_locks' = release(account_locks, a)
  /\ run' = [run EXCEPT ![o] = [pc |-> "next", idx |-> @.idx + 1]]
  /\ UNCHANGED <<op_status, op_phones, op_accounts, mgr_client, progress_queue, log_queue,
                 db_accounts, db_status, db_logs, flush>>
  /\ UNCHANGED otherThanOps

\* not cancelled and get_manager_for_account finds no account: log,
\* (0, 0, error), release, return None
RunAccountNotFound(o) ==
  LET a == Cur(o) IN
  /\ run[o].pc = "check_cancel"
  /\ op_status[o] # "cancelled"
  /\ log_queue' = Logs(log_queue, o, a)
  /\ op_accounts' = Snapshot(op_accounts, o, a, Data(0, 0, "error", "Account not found"))
  /\ progress_queue' = Queued(progress_queue, o, a, Data(0, 0, "error", "Account not found"))
  /\ account_locks' = release(account_locks, a)
  /\ run' = [run EXCEPT ![o] = [pc |-> "next", idx |-> @.idx + 1]]
  /\ UNCHANGED <<op_status, op_phones, mgr_client, db_accounts, db_status, db_logs, flush>>
  /\ UNCHANGED otherThanOps

RunReleaseSessionMut(o) ==
  LET a == Cur(o) IN
  /\ run[o].pc = "check_cancel"
  /\ IF ~is_connected(a)
     THEN UNCHANGED <<clients, connected, log_queue>>
     ELSE /\ LockFree(a)
          /\ connected' = connected \ {<<a, clients[a].client>>}
          /\ clients' = [clients EXCEPT ![a] = NoEntry]
          /\ log_queue' = Logs(log_queue, o, a)
  /\ run' = [run EXCEPT ![o].pc = "connect"]
  /\ UNCHANGED <<locks, operation_locks, task>>
  /\ UNCHANGED <<account_locks, op_status, op_phones, op_accounts, mgr_client,
                 progress_queue, db_accounts, db_status, db_logs, flush>>
  /\ UNCHANGED <<inboxVars, tableVars, limiterVars, dialogVars, connectVars, callVars, shutdownVars, backfillVars, unreadVars, typingVars>>
\* not cancelled and the manager exists: the runner asks the pool to let go
\* of the session.  Nothing to do when the pool has no connected client; else
\* disconnect_account on the runner's own loop disconnects the pooled client
\* and deletes its entry
RunReleaseSession(o) ==
  LET a == Cur(o) IN
  /\ run[o].pc = "check_cancel"
  /\ op_status[o] # "cancelled"
  /\ IF ~is_connected(a)
     THEN UNCHANGED <<clients, connected, log_queue>>
     ELSE /\ LockFree(a)
          /\ connected' = connected \ {<<a, clients[a].client>>}
          /\ clients' = [clients EXCEPT ![a] = NoEntry]
          /\ log_queue' = Logs(log_queue, o, a)
  /\ run' = [run EXCEPT ![o].pc = "connect"]
  /\ UNCHANGED <<locks, operation_locks, task>>
  /\ UNCHANGED <<account_locks, op_status, op_phones, op_accounts, mgr_client,
                 progress_queue, db_accounts, db_status, db_logs, flush>>
  /\ UNCHANGED <<inboxVars, tableVars, limiterVars, dialogVars, connectVars, callVars, shutdownVars, backfillVars, unreadVars, typingVars>>

\* disconnect_account fails on the runner's loop (the lock or the client
\* belongs to the inbox loop): the error is logged and the run goes on
RunReleaseSessionFails(o) ==
  LET a == Cur(o) IN
  /\ run[o].pc = "check_cancel"
  /\ op_status[o] # "cancelled"
  /\ is_connected(a)
  /\ log_queue' = Logs(log_queue, o, a)
  /\ run' = [run EXCEPT ![o].pc = "connect"]
  /\ UNCHANGED otherThanOps
  /\ UNCHANGED <<account_locks, op_status, op_phones, op_accounts, mgr_client,
                 progress_queue, db_accounts, db_status, db_logs, flush>>

\* mgr.init_client(phone) connects the operation's own client: (10, 100, running)
RunConnect(o) ==
  LET a == Cur(o) IN
  /\ run[o].pc = "connect"
  /\ mgr_client' = [mgr_client EXCEPT ![o] = TRUE]
  /\ log_queue' = Logs(log_queue, o, a)
  /\ op_accounts' = Snapshot(op_accounts, o, a, Data(10, 100, "running", "None"))
  /\ progress_queue' = Queued(progress_queue, o, a, Data(10, 100, "running", "None"))
  /\ run' = [run EXCEPT ![o].pc = "logic"]
  /\ UNCHANGED <<account_locks, op_status, op_phones, db_accounts, db_status,
                 db_logs, flush>>
  /\ UNCHANGED otherThanOps

\* init_client returns False: raise, except logs and sets (0, 0, error)
RunConnectFails(o) ==
  LET a == Cur(o) IN
  /\ run[o].pc = "connect"
  /\ log_queue' = Logs(log_queue, o, a)
  /\ op_accounts' = Snapshot(op_accounts, o, a, Data(0, 0, "error", "exception"))
  /\ progress_queue' = Queued(progress_queue, o, a, Data(0, 0, "error", "exception"))
  /\ run' = [run EXCEPT ![o].pc = "finally"]
  /\ UNCHANGED <<account_locks, op_status, op_phones, mgr_client, db_accounts, db_status,
                 db_logs, flush>>
  /\ UNCHANGED otherThanOps

\* _run_<operation>_operation returns its result: (100, 100, completed) and
\* the log
RunLogicDone(o) ==
  LET a == Cur(o) IN
  /\ run[o].pc = "logic"
  /\ log_queue' = Logs(log_queue, o, a)
  /\ op_accounts' = Snapshot(op_accounts, o, a, Data(100, 100, "completed", "None"))
  /\ progress_queue' = Queued(progress_queue, o, a, Data(100, 100, "completed", "None"))
  /\ run' = [run EXCEPT ![o].pc = "finally"]
  /\ UNCHANGED <<account_locks, op_status, op_phones, mgr_client, db_accounts,
                 db_status, db_logs, flush>>
  /\ UNCHANGED otherThanOps

\* the operation raises: except logs and sets (0, 0, error)
RunLogicRaises(o) ==
  LET a == Cur(o) IN
  /\ run[o].pc = "logic"
  /\ log_queue' = Logs(log_queue, o, a)
  /\ op_accounts' = Snapshot(op_accounts, o, a, Data(0, 0, "error", "exception"))
  /\ progress_queue' = Queued(progress_queue, o, a, Data(0, 0, "error", "exception"))
  /\ run' = [run EXCEPT ![o].pc = "finally"]
  /\ UNCHANGED <<account_locks, op_status, op_phones, mgr_client, db_accounts,
                 db_status, db_logs, flush>>
  /\ UNCHANGED otherThanOps

RunFinallyMut(o) ==
  /\ run[o].pc = "finally"
  /\ mgr_client' = [mgr_client EXCEPT ![o] = FALSE]
  /\ run' = [run EXCEPT ![o] = [pc |-> "next", idx |-> @.idx + 1]]
  /\ UNCHANGED <<account_locks, op_status, op_phones, op_accounts, progress_queue, log_queue,
                 db_accounts, db_status, db_logs, flush>>
  /\ UNCHANGED otherThanOps
\* finally: disconnect the own client, close the loop, release the lock
RunFinally(o) ==
  /\ run[o].pc = "finally"
  /\ mgr_client' = [mgr_client EXCEPT ![o] = FALSE]
  /\ account_locks' = release(account_locks, Cur(o))
  /\ run' = [run EXCEPT ![o] = [pc |-> "next", idx |-> @.idx + 1]]
  /\ UNCHANGED <<op_status, op_phones, op_accounts, progress_queue, log_queue,
                 db_accounts, db_status, db_logs, flush>>
  /\ UNCHANGED otherThanOps

\* POST /api/operations/<id>/cancel: refused for an unknown or finished
\* operation; else the status becomes 'cancelled' and the lock of every phone
\* of the operation is released
CancelOperation(o) ==
  /\ op_status[o] \notin {"absent", "completed", "error", "cancelled"}
  /\ op_status' = [op_status EXCEPT ![o] = "cancelled"]
  /\ account_locks' = [a \in Accounts |->
                         IF a \in Range(op_phones[o]) THEN Unlocked ELSE account_locks[a]]
  /\ UNCHANGED <<op_phones, op_accounts, run, mgr_client, progress_queue,
                 log_queue, db_accounts, db_status, db_logs, flush>>
  /\ UNCHANGED otherThanOps

(***************************************************************************)
(* The batched writer.  _flush_progress_to_db and _flush_logs_to_db run in *)
(* the db_flush_worker thread and, through complete_operation, in the      *)
(* thread of an operation: f is the thread.  The queue is copied and       *)
(* emptied under its lock; the rows are written after the lock is left.    *)
(***************************************************************************)
\* db_update_account_progress: the row of (o, a), when it exists
DbProgress(acc, o, a, d) ==
  IF acc[o][a] # NoData THEN [acc EXCEPT ![o][a] = d] ELSE acc

\* ... and the CASE that recomputes operations.status from the rows
DbAggregate(acc, st, o) ==
  LET rows == {a \in Accounts : acc[o][a] # NoData} IN
  IF st[o] = "absent" THEN st
  ELSE IF \E a \in rows : acc[o][a].status = "running" THEN [st EXCEPT ![o] = "running"]
  ELSE IF \A a \in rows : acc[o][a].status \in Terminal THEN [st EXCEPT ![o] = "completed"]
  ELSE st

NoLogs(l) == l = {}

\* the entry of a queue_copy of logs that is written next
Keys == Ops \X Accounts
KeyLess(k1, k2) == k1[1] < k2[1] \/ (k1[1] = k2[1] /\ k1[2] = "a1" /\ k2[2] # "a1")
NextLog(l) == CHOOSE k \in l : \A k2 \in l : k2 # k => KeyLess(k, k2)

\* a flush sequence is over: the worker sleeps again, complete_operation goes on
FlushEnd(f) ==
  IF f = Worker THEN UNCHANGED run ELSE run' = [run EXCEPT ![f].pc = "set_status"]

\* _flush_progress_to_db: with _progress_write_lock: copy and empty the queue
FlushTakeProgress(f) ==
  /\ flush[f].pc = "idle"
  /\ f # Worker => run[f].pc = "complete"
  /\ IF progress_queue = << >>
     THEN /\ flush' = [flush EXCEPT ![f].pc = "take_logs"]
          /\ UNCHANGED progress_queue
     ELSE /\ flush' = [flush EXCEPT ![f] = [@ EXCEPT !.pc = "write_progress",
                                                     !.progress = progress_queue]]
          /\ progress_queue' = << >>
  /\ IF f = Worker THEN UNCHANGED run ELSE run' = [run EXCEPT ![f].pc = "flushing"]
  /\ UNCHANGED <<account_locks, op_status, op_phones, op_accounts, mgr_client,
                 log_queue, db_accounts, db_status, db_logs>>
  /\ UNCHANGED otherThanOps

\* for (op_id, phone), data in queue_copy.items(): db_update_account_progress
FlushWriteProgress(f) ==
  LET e == Head(flush[f].progress)
      acc == DbProgress(db_accounts, e.op, e.phone, e.data) IN
  /\ flush[f].pc = "write_progress"
  /\ db_accounts' = acc
  /\ db_status' = DbAggregate(acc, db_status, e.op)
  /\ flush' = [flush EXCEPT ![f] = [@ EXCEPT !.progress = Tail(@),
                                     !.pc = IF Tail(flush[f].progress) = << >>
                                            THEN "take_logs" ELSE "write_progress"]]
  /\ UNCHANGED <<account_locks, op_status, op_phones, op_accounts, run, mgr_client,
                 progress_queue, log_queue, db_logs>>
  /\ UNCHANGED otherThanOps

\* _flush_logs_to_db: with _log_write_lock: copy and empty the queue
FlushTakeLogs(f) ==
  /\ flush[f].pc = "take_logs"
  /\ IF NoLogs(log_queue)
     THEN /\ flush' = [flush EXCEPT ![f].pc = "idle"]
          /\ FlushEnd(f)
          /\ UNCHANGED log_queue
     ELSE /\ flush' = [flush EXCEPT ![f] = [@ EXCEPT !.pc = "write_logs", !.logs = log_queue]]
          /\ log_queue' = EmptyLogs
          /\ UNCHANGED run
  /\ UNCHANGED <<account_locks, op_status, op_phones, op_accounts, mgr_client,
                 progress_queue, db_accounts, db_status, db_logs>>
  /\ UNCHANGED otherThanOps

\* for op_id, phone, message, level in queue_copy: db_add_operation_log
FlushWriteLog(f) ==
  LET k == NextLog(flush[f].logs)
      rest == flush[f].logs \ {k} IN
  /\ flush[f].pc = "write_logs"
  /\ db_logs' = db_logs \cup {k}
  /\ IF NoLogs(rest)
     THEN /\ flush' = [flush EXCEPT ![f] = IdleFlush]
          /\ FlushEnd(f)
     ELSE /\ flush' = [flush EXCEPT ![f].logs = rest]
          /\ UNCHANGED run
  /\ UNCHANGED <<account_locks, op_status, op_phones, op_accounts, mgr_client,
                 progress_queue, log_queue, db_accounts, db_status>>
  /\ UNCHANGED otherThanOps

\* complete_operation after its two flushes: with operations_lock the
\* in-memory status becomes 'completed' (results given, no error)
CompleteSetStatus(o) ==
  /\ run[o].pc = "set_status"
  /\ op_status' = IF op_status[o] # "absent" THEN [op_status EXCEPT ![o] = "completed"]
                  ELSE op_status
  /\ run' = [run EXCEPT ![o].pc = "db_complete"]
  /\ UNCHANGED <<account_locks, op_phones, op_accounts, mgr_client, progress_queue,
                 log_queue, db_accounts, db_status, db_logs, flush>>
  /\ UNCHANGED otherThanOps

\* db_complete_operation: the terminal status is persisted
CompleteDb(o) ==
  /\ run[o].pc = "db_complete"
  /\ db_status' = [db_status EXCEPT ![o] = "completed"]
  /\ run' = [run EXCEPT ![o].pc = "done"]
  /\ UNCHANGED <<account_locks, op_status, op_phones, op_accounts, mgr_client,
                 progress_queue, log_queue, db_accounts, db_logs, flush>>
  /\ UNCHANGED otherThanOps

(***************************************************************************)
(* The inbox mirror of one conversation (inbox_manager.py with the inbox_  *)
(* functions of account_manager.py).  All tasks below run on the one inbox *)
(* loop: a task is cut where it really suspends (a Telegram request).  The *)
(* answer of a request is fixed when the request is issued; tasks that run *)
(* before the caller resumes see the mirror move under it.                 *)
(***************************************************************************)
MaxMsg == 3
Events == {1, 2}
Jobs == {1, 2}
Procs == {"sync", "dsync", "backfill", "history"}

\* backfill_conversation(..., limit=100) and batch_size of fetch_full_history
BackfillLimit == 100
BatchSize == 100

IdleEvent == [pc |-> "idle", msg |-> 0]
\* calls: the Telegram requests the running job has issued
IdleJob == [pc |-> "idle", proc |-> "sync", answer |-> 0, from_msg_id |-> 0,
            offset_id |-> 0, total |-> 0, calls |-> 0]

InboxInit ==
  /\ remote_last = 0
  /\ conv = [last_msg_id |-> 0, needs_backfill |-> FALSE, backfill_from_msg_id |-> 0,
             contact_status |-> "blue", history_fetched |-> FALSE]
  /\ messages = {}
  /\ inbox_events = [new_message |-> 0, first_reply |-> 0]
  /\ ev = [e \in Events |-> IdleEvent]
  /\ job = [j \in Jobs |-> IdleJob]

Max(S) == CHOOSE m \in S : \A n \in S : n <= m
Min(S) == CHOOSE m \in S : \A n \in S : m <= n

\* client.get_messages(peer, min_id=, offset_id=, limit=) answered when the
\* dialog holds 1..r: the `limit` newest ids above min_id and, when offset_id
\* is given, below it
get_messagesMut(r, min_id, offset_id, limit) ==
  LET match == {m \in 1..r : m > min_id + 1 /\ (offset_id = 0 \/ m < offset_id)} IN
  {m \in match : Cardinality({n \in match : n > m}) < limit}
get_messages(r, min_id, offset_id, limit) ==
  LET match == {m \in 1..r : m > min_id /\ (offset_id = 0 \/ m < offset_id)} IN
  {m \in match : Cardinality({n \in match : n > m}) < limit}

\* inbox_insert_message: INSERT OR IGNORE on (account, peer, msg_id)
inbox_insert_message(rows, m) == rows \cup {m}

\* inbox_update_contact_status(account, peer, new_status)
inbox_update_contact_statusMut(c, new_status) == c
inbox_update_contact_status(c, new_status) == [c EXCEPT !.contact_status = new_status]

\* a new message of the peer reaches Telegram while a client with handlers
\* is connected: the NewMessage handler starts handle_new_message as a task,
\* which suspends in event.get_sender()
MessageArrives(e) ==
  /\ remote_last < MaxMsg
  /\ ev[e].pc = "idle"
  /\ remote_last' = remote_last + 1
  /\ ev' = [ev EXCEPT ![e] = [pc |-> "sender", msg |-> remote_last + 1]]
  /\ UNCHANGED <<conv, messages, inbox_events, job>>
  /\ UNCHANGED otherThanInbox

\* ... while no client is connected: no event is delivered for it
MessageMissed ==
  /\ remote_last < MaxMsg
  /\ remote_last' = remote_last + 1
  /\ UNCHANGED <<conv, messages, inbox_events, ev, job>>
  /\ UNCHANGED otherThanInbox

\* handle_new_message after get_sender: the conversation is read, the message
\* inserted, last_msg_id set to message.id; a blue conversation goes through
\* _handle_first_reply, which writes 'yellow' and suspends in the contact
\* update on Telegram; else the event is emitted and logged
HnmBody(e) ==
  LET m == ev[e].msg
      c1 == [conv EXCEPT !.last_msg_id = m] IN
  /\ ev[e].pc = "sender"
  /\ messages' = inbox_insert_message(messages, m)
  /\ IF conv.contact_status = "blue"
     THEN /\ conv' = inbox_update_contact_status(c1, "yellow")
          /\ ev' = [ev EXCEPT ![e].pc = "contact"]
          /\ UNCHANGED inbox_events
     ELSE /\ conv' = c1
          /\ ev' = [ev EXCEPT ![e] = IdleEvent]
          /\ inbox_events' = [inbox_events EXCEPT !.new_message = @ + 1]
  /\ UNCHANGED <<remote_last, job>>
  /\ UNCHANGED otherThanInbox

\* _handle_first_reply after the contact update: inbox:first_reply is emitted
\* and logged; back in handle_new_message the event is emitted and logged
HnmFirstReplyEnd(e) ==
  /\ ev[e].pc = "contact"
  /\ inbox_events' = [inbox_events EXCEPT !.first_reply = @ + 1, !.new_message = @ + 1]
  /\ ev' = [ev EXCEPT ![e] = IdleEvent]
  /\ UNCHANGED <<remote_last, conv, messages, job>>
  /\ UNCHANGED otherThanInbox

\* process_pending_backfills up to its first suspension, reading row c while
\* the dialog holds 1..r: a conversation that needs backfill gets
\* backfill_conversation(from_msg_id=backfill_from_msg_id or 0), suspended in
\* get_messages; with nothing pending it returns 0
PpbBegin(f, c, r) ==
  IF c.needs_backfill
  THEN [f EXCEPT !.pc = "messages", !.from_msg_id = c.backfill_from_msg_id, !.answer = r,
                 !.calls = @ + 1]
  ELSE IdleJob

\* the gap detection of sync_dialogs for the dialog whose last message is d
\* (0: the peer has no dialog), on the row c
GapRowMut(c, d) ==
  LET db_last_msg_id == c.last_msg_id
      gap == d - db_last_msg_id IN
  IF d = 0 \/ gap <= 0 THEN c
  ELSE IF gap = 1 THEN [c EXCEPT !.last_msg_id = d]
  ELSE [c EXCEPT !.last_msg_id = d, !.needs_backfill = TRUE,
                 !.backfill_from_msg_id = d]
GapRow(c, d) ==
  LET db_last_msg_id == c.last_msg_id
      gap == d - db_last_msg_id IN
  IF d = 0 \/ gap <= 0 THEN c
  ELSE IF gap = 1 THEN [c EXCEPT !.last_msg_id = d]
  ELSE [c EXCEPT !.last_msg_id = d, !.needs_backfill = TRUE,
                 !.backfill_from_msg_id = db_last_msg_id]
GapMessages(rows, c, d) ==
  IF d - c.last_msg_id = 1 THEN inbox_insert_message(rows, d) ELSE rows

\* result.gaps_detected of sync_dialogs
gaps_detectedMut(c, d) == 1
gaps_detected(c, d) == IF d # 0 /\ d - c.last_msg_id >= 2 THEN 1 ELSE 0

\* a task starts full_sync or trigger_dialog_sync (sync_dialogs, suspended in
\* get_dialogs), the scheduled process_pending_backfills, or
\* fetch_full_history (returns at once when history_fetched, else suspended
\* in its first get_messages)
JobStart(j, proc) ==
  LET f == [IdleJob EXCEPT !.proc = proc] IN
  /\ job[j].pc = "idle"
  /\ job' = [job EXCEPT ![j] =
               IF proc \in {"sync", "dsync"}
               THEN [f EXCEPT !.pc = "dialogs", !.answer = remote_last, !.calls = 1]
               ELSE IF proc = "backfill" THEN PpbBegin(f, conv, remote_last)
               ELSE IF conv.history_fetched THEN IdleJob
               ELSE [f EXCEPT !.pc = "batch", !.answer = remote_last, !.calls = 1]]
  /\ UNCHANGED <<remote_last, conv, messages, inbox_events, ev>>
  /\ UNCHANGED otherThanInbox

\* sync_dialogs after get_dialogs: the conversation is read and the gap
\* handled; full_sync goes on into process_pending_backfills,
\* trigger_dialog_sync only when a gap was detected
SdApply(j) ==
  LET c1 == GapRow(conv, job[j].answer) IN
  /\ job[j].pc = "dialogs"
  /\ conv' = c1
  /\ messages' = GapMessages(messages, conv, job[j].answer)
  /\ job' = [job EXCEPT ![j] =
               IF job[j].proc = "dsync" /\ ~(gaps_detected(conv, job[j].answer) > 0)
               THEN IdleJob
               ELSE PpbBegin(job[j], c1, remote_last)]
  /\ UNCHANGED <<remote_last, inbox_events, ev>>
  /\ UNCHANGED otherThanInbox

\* backfill_conversation after get_messages(min_id=from_msg_id, limit): the
\* messages are inserted, the flag cleared and last_msg_id set to the newest
\* id fetched (from_msg_id when nothing came)
BfApply(j) ==
  LET f == job[j]
      msgs == get_messages(f.answer, f.from_msg_id, 0, BackfillLimit)
      latest_msg_id == Max(msgs \cup {f.from_msg_id}) IN
  /\ f.pc = "messages"
  /\ messages' = messages \cup msgs
  /\ conv' = [conv EXCEPT !.needs_backfill = FALSE, !.backfill_from_msg_id = 0,
                          !.last_msg_id = latest_msg_id]
  /\ job' = [job EXCEPT ![j] = [IdleJob EXCEPT !.total = Cardinality(msgs \ messages)]]
  /\ UNCHANGED <<remote_last, inbox_events, ev>>
  /\ UNCHANGED otherThanInbox

\* backfill_conversation fails: get_messages raises (FloodWaitError or any
\* Exception) and 0 is returned; the row keeps its flag and its cursor
BfRaises(j) ==
  /\ job[j].pc = "messages"
  /\ job' = [job EXCEPT ![j] = IdleJob]
  /\ UNCHANGED <<remote_last, conv, messages, inbox_events, ev>>
  /\ UNCHANGED otherThanInbox

\* n messages of the peer reach Telegram while no client is connected
MissedBurst(n, ids) ==
  /\ remote_last + n \in ids
  /\ remote_last' = remote_last + n
  /\ UNCHANGED <<conv, messages, inbox_events, ev, job>>
  /\ UNCHANGED otherThanInbox

\* fetch_full_history after a batch of get_messages(limit=100, offset_id):
\* the batch is inserted; a full batch asks for the next one, else the
\* history is marked fetched and, when anything was fetched, the latest
\* message is requested
FhBatch(j) ==
  LET f == job[j]
      msgs == get_messages(f.answer, 0, f.offset_id, BatchSize)
      total_fetched == f.total + Cardinality(msgs) IN
  /\ f.pc = "batch"
  /\ messages' = messages \cup msgs
  /\ IF msgs # {} /\ Cardinality(msgs) >= BatchSize
     THEN /\ job' = [job EXCEPT ![j] = [f EXCEPT !.offset_id = Min(msgs),
                                                 !.total = total_fetched,
                                                 !.answer = remote_last,
                                                 !.calls = @ + 1]]
          /\ UNCHANGED conv
     ELSE /\ conv' = [conv EXCEPT !.history_fetched = TRUE]
          /\ job' = [job EXCEPT ![j] =
                       IF total_fetched > 0
                       THEN [IdleJob EXCEPT !.proc = "history", !.pc = "latest",
                                            !.answer = remote_last, !.calls = f.calls + 1]
                       ELSE IdleJob]
  /\ UNCHANGED <<remote_last, inbox_events, ev>>
  /\ UNCHANGED otherThanInbox

\* fetch_full_history after get_messages(limit=1): last_msg_id = latest.id
FhLatest(j) ==
  /\ job[j].pc = "latest"
  /\ conv' = IF job[j].answer > 0 THEN [conv EXCEPT !.last_msg_id = job[j].answer] ELSE conv
  /\ job' = [job EXCEPT ![j] = IdleJob]
  /\ UNCHANGED <<remote_last, messages, inbox_events, ev>>
  /\ UNCHANGED otherThanInbox

(***************************************************************************)
(* The table inbox_messages with the columns its writers set               *)
(* (account_manager.py): msg_id, synced_via, text.  UNIQUE(account_phone,  *)
(* peer_id, msg_id) makes msg_id the key of the rows of one conversation.  *)
(***************************************************************************)
\* synced_via as passed by handle_new_message, _insert_message_from_dialog,
\* backfill_conversation and fetch_full_history
Sources == {"event", "dialog", "backfill", "full_history"}
\* message.text as the caller saw it (a message can be edited between two reads)
Texts == {"t1", "t2"}

Row(m, via, text) == [msg_id |-> m, synced_via |-> via, text |-> text]
NoCall == [row |-> Row(0, "event", "t1"), inserted |-> FALSE]

TableInit ==
  /\ inbox_messages = {}
  /\ insert_call = NoCall

\* INSERT OR IGNORE INTO inbox_messages ... VALUES (...)
insert_or_ignoreMut(table, row) ==
  {r \in table : r.msg_id # row.msg_id} \cup {row}
insert_or_ignore(table, row) ==
  IF \E r \in table : r.msg_id = row.msg_id THEN table ELSE table \cup {row}

\* cursor.rowcount of the statement
rowcount(table, row) ==
  Cardinality(insert_or_ignore(table, row)) - Cardinality(table)

\* inbox_insert_message(account, peer, msg_id, ..., text, ..., synced_via)
\* returns inserted = cursor.rowcount > 0
InsertMessage(m, via, text) ==
  /\ inbox_messages' = insert_or_ignore(inbox_messages, Row(m, via, text))
  /\ insert_call' = [row |-> Row(m, via, text),
                      inserted |-> rowcount(inbox_messages, Row(m, via, text)) > 0]
  /\ UNCHANGED otherThanTable

(***************************************************************************)
(* DMRateLimiter (inbox_manager.py) and the ledger inbox_dm_history        *)
(* (account_manager.py) of one account.  The clock counts ticks of half a  *)
(* second from midnight UTC of day 0; sent_at holds whole seconds.         *)
(***************************************************************************)
DM_LIMIT_PER_PERIOD == 40
DM_PERIOD_HOURS == 24
MIN_DELAY_BETWEEN_DMS == 30

TicksPerSecond == 2
SecondsPerDay == 86400

None == -1

\* the instants the clock shows: 23:00:00, 23:00:29.5, 23:00:30 of day 0,
\* 01:00 of day 1 and 01:00 of day 2
Instants == {165600, 165659, 165660, 180000, 352800}

\* the peers and campaigns callers ask about; a campaign_id can be left out
Peers == {1, 2}
Campaigns == {"None", "c1"}

\* the sends the ledger holds when the process starts: k sends to other
\* peers, one every 30 seconds, the last one at 22:59:30 of day 0
InitCounts == {0, 39}
Ledger(k) == [i \in 1..k |-> [peer |-> 100 + i, campaign |-> "None",
                              sent_at |-> 82770 - 30 * (k - i)]]

NewLimiter == [sent_to_ids |-> {}, last_dm_time |-> None]
\* n: the parity of the number of can_send calls made so far
NoAnswer == [peer |-> 0, campaign |-> "None", ok |-> TRUE, reason |-> "-", wait |-> 0,
             n |-> 0]

LimiterInit ==
  /\ now = 165600
  /\ limiter = NewLimiter
  /\ dm_history = << >>
  /\ dm_answer = NoAnswer
  /\ last_record = None

\* the process starts on a ledger written by earlier runs
LedgerInit ==
  /\ now = 165600
  /\ limiter = NewLimiter
  /\ \E k \in InitCounts :
       /\ dm_history = Ledger(k)
       /\ last_record = IF k = 0 THEN None ELSE 82770 * TicksPerSecond
  /\ dm_answer = NoAnswer

\* CURRENT_TIMESTAMP: the clock in whole seconds
CURRENT_TIMESTAMP(t) == t \div TicksPerSecond

\* date('now', 'start of day')
start_of_day(t) == (CURRENT_TIMESTAMP(t) \div SecondsPerDay) * SecondsPerDay

\* inbox_check_dm_sent: a row of the peer for the campaign, or of any
\* campaign when no campaign_id is given
inbox_check_dm_sentMut(h, peer, campaign) ==
  \E i \in DOMAIN h : h[i].peer = peer /\ h[i].campaign = campaign /\ campaign # "None"
inbox_check_dm_sent(h, peer, campaign) ==
  IF campaign # "None"
  THEN \E i \in DOMAIN h : h[i].peer = peer /\ h[i].campaign = campaign
  ELSE \E i \in DOMAIN h : h[i].peer = peer

\* inbox_get_dm_count_today: COUNT(*) WHERE sent_at >= date('now', 'start of day')
inbox_get_dm_count_today(h, t) ==
  Cardinality({i \in DOMAIN h : h[i].sent_at >= start_of_day(t)})

\* inbox_record_dm_sent: INSERT OR IGNORE under UNIQUE(account_phone, peer_id,
\* campaign_id); rows whose campaign_id is NULL never conflict
inbox_record_dm_sent(h, peer, campaign, t) ==
  IF campaign # "None" /\ \E i \in DOMAIN h : h[i].peer = peer /\ h[i].campaign = campaign
  THEN h
  ELSE Append(h, [peer |-> peer, campaign |-> campaign, sent_at |-> CURRENT_TIMESTAMP(t)])

\* f"{wait_time:.0f}" of wait_time given in ticks: the nearest whole number of
\* seconds, a half going to the even one
Format0f(w) ==
  LET q == w \div TicksPerSecond IN
  IF w % TicksPerSecond = 0 THEN q
  ELSE IF q % 2 = 0 THEN q ELSE q + 1

can_sendMut(l, h, t, peer, campaign) ==
  LET elapsed == t - l.last_dm_time IN
  IF peer \in l.sent_to_ids
  THEN [ok |-> FALSE, reason |-> "Already sent (in-memory cache)", wait |-> 0]
  ELSE IF inbox_get_dm_count_today(h, t) >= DM_LIMIT_PER_PERIOD
  THEN [ok |-> FALSE, reason |-> "Daily limit reached", wait |-> 0]
  ELSE IF inbox_check_dm_sent(h, peer, campaign)
  THEN [ok |-> FALSE, reason |-> "Already sent (database)", wait |-> 0]
  ELSE IF l.last_dm_time # None /\ elapsed < MIN_DELAY_BETWEEN_DMS * TicksPerSecond
  THEN [ok |-> FALSE, reason |-> "Wait between DMs",
        wait |-> Format0f(MIN_DELAY_BETWEEN_DMS * TicksPerSecond - elapsed)]
  ELSE [ok |-> TRUE, reason |-> "OK", wait |-> 0]
\* DMRateLimiter.can_send(peer_id, campaign_id): (can_send, reason)
can_send(l, h, t, peer, campaign) ==
  LET elapsed == t - l.last_dm_time IN
  IF peer \in l.sent_to_ids
  THEN [ok |-> FALSE, reason |-> "Already sent (in-memory cache)", wait |-> 0]
  ELSE IF inbox_check_dm_sent(h, peer, campaign)
  THEN [ok |-> FALSE, reason |-> "Already sent (database)", wait |-> 0]
  ELSE IF inbox_get_dm_count_today(h, t) >= DM_LIMIT_PER_PERIOD
  THEN [ok |-> FALSE, reason |-> "Daily limit reached", wait |-> 0]
  ELSE IF l.last_dm_time # None /\ elapsed < MIN_DELAY_BETWEEN_DMS * TicksPerSecond
  THEN [ok |-> FALSE, reason |-> "Wait between DMs",
        wait |-> Format0f(MIN_DELAY_BETWEEN_DMS * TicksPerSecond - elapsed)]
  ELSE [ok |-> TRUE, reason |-> "OK", wait |-> 0]

\* a caller asks can_send; a hit in the ledger warms the in-memory set
CanSend(peer, campaign) ==
  LET r == can_send(limiter, dm_history, now, peer, campaign) IN
  /\ dm_answer' = [peer |-> peer, campaign |-> campaign, ok |-> r.ok,
                    reason |-> r.reason, wait |-> r.wait, n |-> 1 - dm_answer.n]
  /\ limiter' = IF r.reason = "Already sent (database)"
                 THEN [limiter EXCEPT !.sent_to_ids = @ \cup {peer}]
                 ELSE limiter
  /\ UNCHANGED <<now, dm_history, last_record>>
  /\ UNCHANGED otherThanLimiter

\* DMRateLimiter.record_sent(peer_id, msg_id, campaign_id)
RecordSent(peer, campaign) ==
  /\ Cardinality({i \in DOMAIN dm_history : dm_history[i].peer \in Peers}) < MaxSends
  /\ limiter' = [sent_to_ids |-> limiter.sent_to_ids \cup {peer}, last_dm_time |-> now]
  /\ dm_history' = inbox_record_dm_sent(dm_history, peer, campaign, now)
  /\ last_record' = now
  /\ UNCHANGED <<now, dm_answer>>
  /\ UNCHANGED otherThanLimiter

\* DMRateLimiter(account_phone): a new instance for the account (a restart
\* of the process, a caller that builds its own)
Construct ==
  /\ limiter' = NewLimiter
  /\ UNCHANGED <<now, dm_history, dm_answer, last_record>>
  /\ UNCHANGED otherThanLimiter

\* time passes
Tick(t) ==
  /\ t > now
  /\ now' = t
  /\ UNCHANGED <<limiter, dm_history, dm_answer, last_record>>
  /\ UNCHANGED otherThanLimiter

(***************************************************************************)
(* sync_dialogs over the dialogs of one account (inbox_manager.py).  The   *)
(* call suspends once, in client.get_dialogs(); the loop over the dialogs  *)
(* runs without suspension, inside one try block.                          *)
(***************************************************************************)
DialogPeers == {1, 2}

\* what get_dialogs can answer: private chats, no peer twice, each with the
\* id of its last message (0: the dialog has no message)
DialogLists ==
  {s \in UNION {[1..n -> [peer : DialogPeers, msg_id : 0..MaxMsg]] :
                  n \in 0..Cardinality(DialogPeers)} :
     \A i, j \in DOMAIN s : i # j => s[i].peer # s[j].peer}

\* SyncResult(); reached: the dialogs the loop got to
SyncResult == [dialogs_fetched |-> 0, synced |-> 0, skipped |-> 0, gaps_detected |-> 0,
               deletions_detected |-> 0, errors |-> << >>, reached |-> 0]
NewRow == [last_msg_id |-> 0, needs_backfill |-> FALSE, backfill_from_msg_id |-> 0,
           contact_status |-> "blue", history_fetched |-> FALSE]
IdleSync == [pc |-> "idle", dialogs |-> << >>, result |-> SyncResult]

DialogsInit ==
  /\ sync_run = IdleSync
  /\ peer_rows = [p \in DialogPeers |-> NewRow]

\* the counters of result after the dialog with last message d met row c
Counted(res, c, d) ==
  LET gap == d - c.last_msg_id IN
  IF d = 0 THEN res
  ELSE IF gap = 0 THEN [res EXCEPT !.skipped = @ + 1]
  ELSE IF gap = 1 THEN [res EXCEPT !.synced = @ + 1]
  ELSE IF gap >= 2 THEN [res EXCEPT !.gaps_detected = @ + 1]
  ELSE [res EXCEPT !.deletions_detected = @ + 1]

\* the for loop over dialogs from index i on: rows and result after it.
\* fail_at is the index of the dialog at which an exception other than
\* FloodWaitError is raised (inbox_get_or_create_conversation returns None on
\* a database error and conv.get raises; a dialog without message is skipped
\* before), 0 when none is: the exception leaves the loop for
\* `except Exception`, which appends it to errors
RECURSIVE DialogLoop(_, _, _, _, _)
DialogLoop(rows, res, dialogs, i, fail_at) ==
  IF i > Len(dialogs) THEN [rows |-> rows, result |-> res]
  ELSE IF i = fail_at /\ dialogs[i].msg_id # 0
       THEN [rows |-> rows,
             result |-> [res EXCEPT !.errors = Append(@, "error"), !.reached = i]]
       ELSE LET d == dialogs[i] IN
            DialogLoop([rows EXCEPT ![d.peer] = GapRow(@, d.msg_id)],
                       [Counted(res, rows[d.peer], d.msg_id) EXCEPT !.reached = i],
                       dialogs, i + 1, fail_at)

\* sync_dialogs is called: without a connected pooled client it returns the
\* result with 'not connected'; else it suspends in get_dialogs
SdCall(is_conn) ==
  /\ sync_run.pc \in {"idle", "returned"}
  /\ sync_run' = IF is_conn
                 THEN [pc |-> "get_dialogs", dialogs |-> << >>, result |-> SyncResult]
                 ELSE [pc |-> "returned", dialogs |-> << >>,
                       result |-> [SyncResult EXCEPT !.errors = <<"not connected">>]]
  /\ UNCHANGED peer_rows
  /\ UNCHANGED otherThanDialog

\* get_dialogs raises FloodWaitError: 'Rate limited, wait Ns' and return
SdFloodWait ==
  /\ sync_run.pc = "get_dialogs"
  /\ sync_run' = [sync_run EXCEPT !.pc = "returned",
                                  !.result.errors = Append(@, "Rate limited")]
  /\ UNCHANGED peer_rows
  /\ UNCHANGED otherThanDialog

\* get_dialogs raises anything else: str(e) and return
SdDialogsRaise ==
  /\ sync_run.pc = "get_dialogs"
  /\ sync_run' = [sync_run EXCEPT !.pc = "returned",
                                  !.result.errors = Append(@, "error")]
  /\ UNCHANGED peer_rows
  /\ UNCHANGED otherThanDialog

\* get_dialogs answers: dialogs_fetched, the loop, and the return
SdDialogs(dialogs, fail_at) ==
  LET out == DialogLoop(peer_rows, [SyncResult EXCEPT !.dialogs_fetched = Len(dialogs)],
                        dialogs, 1, fail_at) IN
  /\ sync_run.pc = "get_dialogs"
  /\ fail_at \in 0..Len(dialogs)
  /\ sync_run' = [pc |-> "returned", dialogs |-> dialogs, result |-> out.result]
  /\ peer_rows' = out.rows
  /\ UNCHANGED otherThanDialog

(***************************************************************************)
(* InboxManager.connect_account / connect_all_active_accounts              *)
(* (inbox_manager.py) around get_client (connection_manager.py).  The      *)
(* accounts are connected one after the other on the inbox loop; nothing   *)
(* else calls the pool meanwhile, so the steps of get_client under the     *)
(* connect lock are taken together when the attempt ends.                  *)
(***************************************************************************)
\* how a connect attempt of get_client ends
Outcomes == {"ok", "not_authorized", "AuthKeyUnregisteredError",
             "UserDeactivatedBanError", "Exception"}

IdleConnect == [pc |-> "idle", phone |-> "a1", outcome |-> "-", res |-> "-"]

ConnectInit ==
  /\ connection_state = [a \in Accounts |-> "disconnected"]
  /\ connect_call = IdleConnect

\* what get_client returns for the outcome of its attempt
get_client_result(outcome) == IF outcome = "ok" THEN "client" ELSE "None"

\* the state connect_account writes for what get_client returned
state_for(res) == IF res # "None" THEN "connected" ELSE "auth_required"

\* connect_account(a) calls get_client(..., register_events=True): a
\* connected pooled client is returned at once and 'connected' is written;
\* else the call suspends in the connect attempt
CaCall(a) ==
  /\ connect_call.pc \in {"idle", "returned"}
  /\ IF is_connected(a)
     THEN /\ connect_call' = [pc |-> "returned", phone |-> a, outcome |-> "pooled",
                              res |-> "client"]
          /\ connection_state' = [connection_state EXCEPT ![a] = state_for("client")]
     ELSE /\ connect_call' = [pc |-> "get_client", phone |-> a, outcome |-> "-", res |-> "-"]
          /\ UNCHANGED connection_state
  /\ UNCHANGED poolVars
  /\ UNCHANGED otherThanPoolConnect

\* the attempt ends with `outcome`: on "ok" the ConnectionInfo is stored; on
\* every other outcome get_client returns None (the client that was not
\* authorized is disconnected, the others never got further than connect);
\* connect_account writes the state for what was returned
CaAttemptEnds(outcome) ==
  LET a == connect_call.phone
      res == get_client_result(outcome) IN
  /\ connect_call.pc = "get_client"
  /\ IF outcome = "ok"
     THEN /\ CanBuild(a)
          /\ connected' = connected \cup {<<a, NewClient(a)>>}
          /\ clients' = [clients EXCEPT ![a] = [client |-> NewClient(a), handlers |-> TRUE,
                                                in_use_by |-> "None"]]
     ELSE UNCHANGED <<clients, connected>>
  /\ connect_call' = [pc |-> "returned", phone |-> a, outcome |-> outcome, res |-> res]
  /\ connection_state' = [connection_state EXCEPT ![a] = state_for(res)]
  /\ UNCHANGED <<locks, operation_locks, task>>
  /\ UNCHANGED otherThanPoolConnect

(***************************************************************************)
(* The users of the pooled client in inbox_manager.py: sync_dialogs,       *)
(* backfill_conversation, fetch_full_history and send_message read the     *)
(* ConnectionInfo with get_connection_info and await a request on its      *)
(* client.                                                                 *)
(***************************************************************************)
\* client.get_dialogs(), client.get_messages(...), client.send_message(...)
Requests == {"get_dialogs", "get_messages", "send_message"}

\* the coroutine that makes the request, as a holder of asyncio locks
Caller == Cardinality(Tasks) + 1

NoRequest == [pc |-> "idle", phone |-> "a1", cid |-> NoClient, request |-> "-"]

CallsInit == transport_call = NoRequest

\* conn_info = get_connection_info(phone); without a connected client the
\* function returns its error; else client = conn_info.client and the
\* request is awaited
TcBegin(a, request) ==
  /\ transport_call.pc = "idle"
  /\ transport_call' = IF is_connected(a)
                       THEN [pc |-> "in_call", phone |-> a, cid |-> clients[a].client,
                             request |-> request]
                       ELSE NoRequest
  /\ UNCHANGED otherThanCall

\* the request answers or raises; the function handles it and returns
TcEnd ==
  /\ transport_call.pc = "in_call"
  /\ transport_call' = NoRequest
  /\ UNCHANGED otherThanCall

(***************************************************************************)
(* GlobalConnectionManager.shutdown: the flag, then disconnect_account for *)
(* every phone of list(self._clients.keys()), one after the other.  The    *)
(* list is the dict's insertion order, which the pool entries do not keep: *)
(* any order of the accounts in the pool.                                  *)
(***************************************************************************)
IdleShutdown == [pc |-> "idle", by |-> NoTask, todo |-> <<>>, shutting_down |-> FALSE]

ShutdownInit == shutdown_run = IdleShutdown

Orders(S) ==
  {ord \in [1..Cardinality(S) -> S] : \A i, j \in DOMAIN ord : ord[i] = ord[j] => i = j}

\* the coroutine t is inside shutdown(): it makes no other call
InShutdown(t) == shutdown_run.pc = "loop" /\ shutdown_run.by = t

\* the loop head: the next phone's disconnect_account, or the end of the loop
ShIterate(t, todo) ==
  IF todo = <<>>
  THEN /\ shutdown_run' = [shutdown_run EXCEPT !.pc = "idle", !.by = NoTask, !.todo = <<>>,
                                               !.shutting_down = TRUE]
       /\ UNCHANGED poolVars
  ELSE /\ shutdown_run' = [pc |-> "loop", by |-> t, todo |-> Tail(todo),
                           shutting_down |-> TRUE]
       /\ DcBegin(t, Head(todo))

\* shutdown() has returned: InboxManager.stop is over, its loop is closed or
\* the process exits (api_server.py, start_inbox_manager and graceful_shutdown)
Stopped == shutdown_run.pc = "idle" /\ shutdown_run.shutting_down

\* InboxManager.stop enters shutdown(), once (stop returns at once when the
\* manager is not running any more)
Shutdown(t) ==
  /\ shutdown_run.pc = "idle"
  /\ ~shutdown_run.shutting_down
  /\ task[t].pc = "idle"
  /\ \E ord \in Orders({a \in Accounts : InPool(a)}) : ShIterate(t, ord)
  /\ UNCHANGED otherThanPoolShutdown

\* the awaited disconnect_account returned: the loop goes on
ShLoop(t) ==
  /\ InShutdown(t)
  /\ task[t].pc = "idle"
  /\ ShIterate(t, shutdown_run.todo)
  /\ UNCHANGED otherThanPoolShutdown

(***************************************************************************)
(* process_pending_backfills over the flagged conversations of one account *)
(* (inbox_manager.py).  The run suspends in the get_messages of each       *)
(* backfill_conversation and in the sleep after it; sync_dialogs may reach *)
(* a peer meanwhile.                                                       *)
(***************************************************************************)
IdleBackfills == [pc |-> "idle", pending |-> << >>, i |-> 0, answer |-> 0,
                  outcomes |-> << >>, total_backfilled |-> 0]

BackfillsInit ==
  /\ backfill_run = IdleBackfills
  /\ stored = [p \in DialogPeers |-> {}]

\* inbox_get_conversations_needing_backfill: the flagged rows as the query
\* returns them (no ORDER BY), listed in the order ord
PendingRows(ord) ==
  [i \in DOMAIN ord |-> [peer_id |-> ord[i],
                         backfill_from_msg_id |-> peer_rows[ord[i]].backfill_from_msg_id]]

\* the loop of process_pending_backfills at conversation i: past the last one
\* the total is returned; else backfill_conversation is entered, which
\* returns 0 without a connected pooled client (the sleep follows) and else
\* suspends in get_messages, answered from a dialog that holds 1..r
PpbLoop(f, i, is_conn, r) ==
  IF i > Len(f.pending) THEN [f EXCEPT !.pc = "returned", !.i = i]
  ELSE IF ~is_conn
       THEN [f EXCEPT !.pc = "sleep", !.i = i, !.outcomes = Append(@, "not connected")]
       ELSE [f EXCEPT !.pc = "get_messages", !.i = i, !.answer = r]

\* sync_dialogs of the account reaches the dialog of peer p, whose last
\* message is d: the gap detection on the row, the insert of a gap of 1
SdPeer(p, d) ==
  /\ peer_rows' = [peer_rows EXCEPT ![p] = GapRow(@, d)]
  /\ stored' = [stored EXCEPT ![p] = GapMessages(@, peer_rows[p], d)]
  /\ UNCHANGED <<sync_run, backfill_run>>
  /\ UNCHANGED otherThanDialogBackfill

\* process_pending_backfills is called
PpbCall(ord, is_conn, r) ==
  /\ backfill_run.pc \in {"idle", "returned"}
  /\ backfill_run' = PpbLoop([IdleBackfills EXCEPT !.pending = PendingRows(ord)], 1, is_conn, r)
  /\ UNCHANGED <<stored, dialogVars>>
  /\ UNCHANGED otherThanDialogBackfill

\* get_messages answers: the messages are inserted, the flag is cleared and
\* last_msg_id set; the count of inserted rows is added and the run sleeps
BcAnswer ==
  LET f == backfill_run
      c == f.pending[f.i]
      msgs == get_messages(f.answer, c.backfill_from_msg_id, 0, BackfillLimit)
      latest_msg_id == Max(msgs \cup {c.backfill_from_msg_id}) IN
  /\ f.pc = "get_messages"
  /\ stored' = [stored EXCEPT ![c.peer_id] = @ \cup msgs]
  /\ peer_rows' = [peer_rows EXCEPT ![c.peer_id] =
                     [@ EXCEPT !.needs_backfill = FALSE, !.backfill_from_msg_id = 0,
                               !.last_msg_id = latest_msg_id]]
  /\ backfill_run' = [f EXCEPT !.pc = "sleep", !.outcomes = Append(@, "ok"),
                               !.total_backfilled = @ + Cardinality(msgs \ stored[c.peer_id])]
  /\ UNCHANGED sync_run
  /\ UNCHANGED otherThanDialogBackfill

BcFailsMut(error) ==
  /\ backfill_run.pc = "get_messages"
  /\ backfill_run' = [backfill_run EXCEPT !.pc = "returned", !.outcomes = Append(@, error)]
  /\ UNCHANGED <<stored, dialogVars>>
  /\ UNCHANGED otherThanDialogBackfill
\* get_messages raises FloodWaitError or another Exception: 0 is returned
BcFails(error) ==
  /\ backfill_run.pc = "get_messages"
  /\ backfill_run' = [backfill_run EXCEPT !.pc = "sleep", !.outcomes = Append(@, error)]
  /\ UNCHANGED <<stored, dialogVars>>
  /\ UNCHANGED otherThanDialogBackfill

\* asyncio.sleep(1) is over: the next conversation of the list
PpbWake(is_conn, r) ==
  /\ backfill_run.pc = "sleep"
  /\ backfill_run' = PpbLoop(backfill_run, backfill_run.i + 1, is_conn, r)
  /\ UNCHANGED <<stored, dialogVars>>
  /\ UNCHANGED otherThanDialogBackfill

(***************************************************************************)
(* handle_new_message and the unread counter (inbox_manager.py).  The      *)
(* events are those of one private conversation with a user; each handler  *)
(* is a task of the inbox loop, suspended in event.get_sender() only: the  *)
(* read of the row, the insert and inbox_update_conversation follow        *)
(* without a suspension.                                                   *)
(***************************************************************************)
IdleHandler == [pc |-> "idle", msg |-> 0, incoming |-> FALSE]

UnreadInit ==
  /\ unread_row = [unread_count |-> 0, last_msg_id |-> 0]
  /\ nm = [e \in Events |-> IdleHandler]
  /\ delivered = [incoming |-> 0, outgoing |-> 0]

\* Telegram delivers a NewMessage event (incoming=True or outgoing=True): the
\* handler task starts and suspends in get_sender
NmEvent(e, incoming) ==
  LET id == delivered.incoming + delivered.outgoing + 1 IN
  /\ id <= MaxMsg
  /\ nm[e].pc = "idle"
  /\ nm' = [nm EXCEPT ![e] = [pc |-> "sender", msg |-> id, incoming |-> incoming]]
  /\ delivered' = IF incoming THEN [delivered EXCEPT !.incoming = @ + 1]
                  ELSE [delivered EXCEPT !.outgoing = @ + 1]
  /\ UNCHANGED unread_row
  /\ UNCHANGED otherThanUnread

NmBodyMut(e) ==
  /\ nm[e].pc = "sender"
  /\ unread_row' = [last_msg_id |-> nm[e].msg, unread_count |-> unread_row.unread_count + 1]
  /\ nm' = [nm EXCEPT ![e] = IdleHandler]
  /\ UNCHANGED delivered
  /\ UNCHANGED otherThanUnread
\* after get_sender: conv is read, update_data gets last_msg_id and, for an
\* incoming message, unread_count = conv.unread_count + 1; the row is updated
NmBody(e) ==
  LET conv_unread == unread_row.unread_count IN
  /\ nm[e].pc = "sender"
  /\ unread_row' = [last_msg_id |-> nm[e].msg,
                    unread_count |-> IF nm[e].incoming THEN conv_unread + 1 ELSE conv_unread]
  /\ nm' = [nm EXCEPT ![e] = IdleHandler]
  /\ UNCHANGED delivered
  /\ UNCHANGED otherThanUnread

\* a get_messages of fetch_full_history raises FloodWaitError: the run
\* returns success False with the error and wait_seconds
FhFloodWait(j) ==
  /\ job[j].pc \in {"batch", "latest"}
  /\ job' = [job EXCEPT ![j] = IdleJob]
  /\ UNCHANGED <<remote_last, conv, messages, inbox_events, ev>>
  /\ UNCHANGED otherThanInbox

(***************************************************************************)
(* Typing indicators (EventProcessor.handle_typing): every typing event    *)
(* broadcasts is_typing True and arms a task that broadcasts is_typing     *)
(* False after TypingTimeout seconds; time passes in whole seconds.        *)
(***************************************************************************)
TypingTimeout == 5
TypingAccounts == {"a1", "a2"}
TypingPeers == {"p1", "p2"}
\* timer_key = f"{account_phone}:{peer_id}"
timer_key(account_phone, peer_id) == <<account_phone, peer_id>>
TypingKeys == {timer_key(a, p) : a \in TypingAccounts, p \in TypingPeers}
NoTimer == -1

TypingInit ==
  /\ typing_timers = [k \in TypingKeys |-> NoTimer]
  /\ sleeping = {}
  /\ typing_shown = [k \in TypingKeys |-> FALSE]
  /\ since = [k \in TypingKeys |-> TypingTimeout]
  /\ rearmed = [k \in TypingKeys |-> FALSE]

\* the task a _typing_timers entry refers to
TimerTask(k) == [key |-> k, left |-> typing_timers[k]]

\* handle_typing without the cancel() of the timer it replaces
handle_typingMut(account_phone, peer_id) ==
  LET k == timer_key(account_phone, peer_id) IN
  /\ typing_shown' = [typing_shown EXCEPT ![k] = TRUE]
  /\ sleeping' = sleeping \cup {[key |-> k, left |-> TypingTimeout]}
  /\ typing_timers' = [typing_timers EXCEPT ![k] = TypingTimeout]
  /\ since' = [since EXCEPT ![k] = 0]
  /\ rearmed' = [rearmed EXCEPT ![k] = typing_timers[k] # NoTimer]
  /\ UNCHANGED otherThanTyping

\* handle_typing: emit is_typing True, cancel the timer of the key if there
\* is one, create the expire_typing task and store it under the key
handle_typing(account_phone, peer_id) ==
  LET k == timer_key(account_phone, peer_id)
      kept == IF typing_timers[k] # NoTimer THEN sleeping \ {TimerTask(k)} ELSE sleeping IN
  /\ typing_shown' = [typing_shown EXCEPT ![k] = TRUE]
  /\ sleeping' = kept \cup {[key |-> k, left |-> TypingTimeout]}
  /\ typing_timers' = [typing_timers EXCEPT ![k] = TypingTimeout]
  /\ since' = [since EXCEPT ![k] = 0]
  /\ rearmed' = [rearmed EXCEPT ![k] = typing_timers[k] # NoTimer]
  /\ UNCHANGED otherThanTyping

\* one second passes: asyncio.sleep(5) of every waiting task runs down
TypingTick ==
  /\ sleeping' = {[t EXCEPT !.left = IF @ > 0 THEN @ - 1 ELSE 0] : t \in sleeping}
  /\ typing_timers' = [k \in TypingKeys |->
                         IF typing_timers[k] \in {NoTimer, 0} THEN typing_timers[k]
                         ELSE typing_timers[k] - 1]
  /\ since' = [k \in TypingKeys |->
                 IF since[k] < TypingTimeout THEN since[k] + 1 ELSE since[k]]
  /\ UNCHANGED <<typing_shown, rearmed>>
  /\ UNCHANGED otherThanTyping

\* expire_typing after its sleep: emit is_typing False, delete the entry
expire_typing(k) ==
  /\ [key |-> k, left |-> 0] \in sleeping
  /\ sleeping' = sleeping \ {[key |-> k, left |-> 0]}
  /\ typing_shown' = [typing_shown EXCEPT ![k] = FALSE]
  /\ typing_timers' = [typing_timers EXCEPT ![k] = NoTimer]
  /\ rearmed' = [rearmed EXCEPT ![k] = FALSE]
  /\ UNCHANGED since
  /\ UNCHANGED otherThanTyping

(***************************************************************************)
(* SpecPool: coroutines of the inbox loop calling the pool.                *)
(***************************************************************************)
Init == PoolInit /\ OpsInit /\ InboxInit /\ TableInit /\ LimiterInit /\ DialogsInit /\ ConnectInit /\ CallsInit /\ ShutdownInit /\ BackfillsInit /\ UnreadInit /\ TypingInit

PoolNext ==
  \/ \E t \in Tasks, a \in Accounts, reg \in RegisterChoices, cr \in CredChoices :
       GetClient(t, a, reg, cr)
  \/ \E t \in Tasks : GcAcquire(t)
  \/ \E t \in Tasks : GcConnectOk(t)
  \/ \E t \in Tasks : GcConnectFail(t)
  \/ \E t \in Tasks : GcStore(t)
  \/ \E t \in Tasks : GcNotAuthorized(t)
  \/ \E t \in Tasks : GcAuthRaises(t)
  \/ \E c \in connected : ConnectionLost(c)
  \/ \E t \in Tasks, a \in Accounts : DisconnectAccount(t, a)
  \/ \E t \in Tasks : DcAcquire(t)
  \/ \E t \in Tasks : DcBody(t)
  \/ \E t \in Tasks : DcDelete(t)
  \/ \E t \in Tasks, a \in Accounts : WithClient(t, a)
  \/ \E t \in Tasks : WcAcquire(t)
  \/ \E t \in Tasks : WcExit(t)

SpecPool == Init /\ [][PoolNext]_vars

(***************************************************************************)
(* SpecOps: operations started and cancelled over HTTP, their runner       *)
(* threads and their completion.                                           *)
(***************************************************************************)
OpsNext ==
  \/ \E r \in OpsRequests : CreateOperation(r[1], r[2])
  \/ \E o \in Ops : CancelOperation(o)
  \/ \E o \in Ops : RunNext(o)
  \/ \E o \in Ops : RunAcquire(o)
  \/ \E o \in Ops : RunLockTimeout(o)
  \/ \E o \in Ops : RunCancelled(o)
  \/ \E o \in Ops : RunAccountNotFound(o)
  \/ \E o \in Ops : RunReleaseSession(o)
  \/ \E o \in Ops : RunConnect(o)
  \/ \E o \in Ops : RunConnectFails(o)
  \/ \E o \in Ops : RunLogicDone(o)
  \/ \E o \in Ops : RunLogicRaises(o)
  \/ \E o \in Ops : RunFinally(o)
  \/ \E o \in Ops : FlushTakeProgress(o)
  \/ \E o \in Ops : FlushWriteProgress(o)
  \/ \E o \in Ops : FlushTakeLogs(o)
  \/ \E o \in Ops : FlushWriteLog(o)
  \/ \E o \in Ops : CompleteSetStatus(o)
  \/ \E o \in Ops : CompleteDb(o)

SpecOps == Init /\ [][OpsNext]_vars

(***************************************************************************)
(* SpecFlush: one operation and the db_flush_worker thread.                *)
(***************************************************************************)
SoloOps == {1}

FlushNext ==
  \/ \E o \in SoloOps, ph \in PhoneLists : CreateOperation(o, ph)
  \/ \E o \in SoloOps : RunNext(o)
  \/ \E o \in SoloOps : RunAcquire(o)
  \/ \E o \in SoloOps : RunAccountNotFound(o)
  \/ \E o \in SoloOps : RunReleaseSession(o)
  \/ \E o \in SoloOps : RunConnect(o)
  \/ \E o \in SoloOps : RunConnectFails(o)
  \/ \E o \in SoloOps : RunLogicDone(o)
  \/ \E o \in SoloOps : RunLogicRaises(o)
  \/ \E o \in SoloOps : RunFinally(o)
  \/ \E f \in SoloOps \cup {Worker} : FlushTakeProgress(f)
  \/ \E f \in SoloOps \cup {Worker} : FlushWriteProgress(f)
  \/ \E f \in SoloOps \cup {Worker} : FlushTakeLogs(f)
  \/ \E f \in SoloOps \cup {Worker} : FlushWriteLog(f)
  \/ \E o \in SoloOps : CompleteSetStatus(o)
  \/ \E o \in SoloOps : CompleteDb(o)

SpecFlush == Init /\ [][FlushNext]_vars

(***************************************************************************)
(* SpecBulk: one operation while the inbox connects and disconnects the    *)
(* accounts through the pool (InboxManager.connect_account and             *)
(* disconnect_account run get_client and disconnect_account on the inbox   *)
(* loop).                                                                  *)
(***************************************************************************)
InboxTasks == {1}

BulkNext ==
  \/ \E t \in InboxTasks, a \in Accounts, reg \in RegisterChoices, cr \in CredChoices :
       GetClient(t, a, reg, cr)
  \/ \E t \in InboxTasks : GcConnectOk(t)
  \/ \E t \in InboxTasks : GcConnectFail(t)
  \/ \E t \in InboxTasks : GcStore(t)
  \/ \E t \in InboxTasks : GcNotAuthorized(t)
  \/ \E t \in InboxTasks : GcAuthRaises(t)
  \/ \E t \in InboxTasks, a \in Accounts : DisconnectAccount(t, a)
  \/ \E t \in InboxTasks : DcBody(t)
  \/ \E t \in InboxTasks : DcDelete(t)
  \/ \E o \in SoloOps, ph \in PhoneLists : CreateOperation(o, ph)
  \/ \E o \in SoloOps : RunNext(o)
  \/ \E o \in SoloOps : RunAcquire(o)
  \/ \E o \in SoloOps : RunReleaseSession(o)
  \/ \E o \in SoloOps : RunReleaseSessionFails(o)
  \/ \E o \in SoloOps : RunConnect(o)
  \/ \E o \in SoloOps : RunConnectFails(o)
  \/ \E o \in SoloOps : RunLogicDone(o)
  \/ \E o \in SoloOps : RunLogicRaises(o)
  \/ \E o \in SoloOps : RunFinally(o)
  \/ \E o \in SoloOps : FlushTakeProgress(o)
  \/ \E o \in SoloOps : FlushWriteProgress(o)
  \/ \E o \in SoloOps : FlushTakeLogs(o)
  \/ \E o \in SoloOps : FlushWriteLog(o)
  \/ \E o \in SoloOps : CompleteSetStatus(o)
  \/ \E o \in SoloOps : CompleteDb(o)

SpecBulk == Init /\ [][BulkNext]_vars

(***************************************************************************)
(* SpecInbox: events, syncs, backfills and history fetches of one          *)
(* conversation interleaved on the inbox loop.                             *)
(***************************************************************************)
InboxNext ==
  \/ \E e \in Events : MessageArrives(e)
  \/ MessageMissed
  \/ \E e \in Events : HnmBody(e)
  \/ \E e \in Events : HnmFirstReplyEnd(e)
  \/ \E j \in Jobs, proc \in Procs : JobStart(j, proc)
  \/ \E j \in Jobs : SdApply(j)
  \/ \E j \in Jobs : BfApply(j)
  \/ \E j \in Jobs : FhBatch(j)
  \/ \E j \in Jobs : FhLatest(j)

SpecInbox == Init /\ [][InboxNext]_vars

(***************************************************************************)
(* SpecSync: the mirror is fed by events handled one at a time and by      *)
(* messages missed while disconnected; full_sync runs while nothing else   *)
(* moves; so does trigger_dialog_sync.                                      *)
(***************************************************************************)
SyncEvents == {1}
SyncJobs == {1, 2}
SyncProcs == {"sync", "dsync"}
Quiet == (\A e \in Events : ev[e].pc = "idle") /\ (\A j \in Jobs : job[j].pc = "idle")

SyncNext ==
  \/ \E e \in SyncEvents : Quiet /\ MessageArrives(e)
  \/ Quiet /\ MessageMissed
  \/ \E e \in SyncEvents : HnmBody(e)
  \/ \E e \in SyncEvents : HnmFirstReplyEnd(e)
  \/ \E j \in SyncJobs, proc \in SyncProcs : Quiet /\ JobStart(j, proc)
  \/ \E j \in SyncJobs : SdApply(j)
  \/ \E j \in SyncJobs : BfApply(j)

SpecSync == Init /\ [][SyncNext]_vars

(***************************************************************************)
(* Properties of the pool, checked under SpecPool.                         *)
(***************************************************************************)
\* C1: for every account at most one connected transport client exists,
\* whatever the interleaving of get_client calls: while the pool holds a
\* connected client for the account, no caller that waited on the connect
\* lock has connected a second one.
C1_SingleLiveClient ==
  \A a \in Accounts : is_connected(a) => Cardinality(LiveClients(a)) <= 1

\* C10: for each account at most one with_client body runs at a time, and the
\* operation lock of an account is only ever held by a lease on that account
\* (leases on different accounts do not meet).
C10_OneBodyPerAccount ==
  /\ \A a \in Accounts :
       Cardinality({t \in Tasks : task[t].pc = "wc_body" /\ task[t].phone = a}) <= 1
  /\ \A a \in Accounts :
       operation_locks[a] # NoTask =>
         /\ task[operation_locks[a]].lease
         /\ task[operation_locks[a]].phone = a
  /\ \A t \in Tasks :
       task[t].pc = "wc_body" => operation_locks[task[t].phone] = t

\* a lease runs its body on a1 while a second with_client on a1 waits and
\* the pool of a2 is untouched by either
C10_Witness ==
  \E t \in Tasks, u \in Tasks :
    /\ task[t].pc = "wc_body" /\ task[t].phone = "a1"
    /\ task[u].pc = "wc_wait" /\ task[u].phone = "a1"
    /\ operation_locks["a2"] = NoTask

\* C11: the step that ends a with_client lease (the body returned or raised)
\* leaves the in_use_by tag of the account at None and neither removes the
\* pool entry nor disconnects any client: a session that is in the pool and
\* connected when the lease ends is so afterwards.
C11_LeaseEndKeepsSession ==
  [][\A t \in Tasks :
       (task[t].pc = "wc_body" /\ task'[t].pc = "idle") =>
         /\ clients'[task[t].phone].in_use_by = "None"
         /\ clients'[task[t].phone].client = clients[task[t].phone].client
         /\ connected' = connected
         /\ (is_connected(task[t].phone) =>
               /\ clients'[task[t].phone].client # NoClient
               /\ <<task[t].phone, clients'[task[t].phone].client>> \in connected')]_vars

\* a lease on a1 has just ended while a second with_client waits for the
\* operation lock: the lock is free again, the session of a1 is in the pool,
\* connected and untagged
C11_Witness ==
  \E u \in Tasks :
    /\ task[u].pc = "wc_wait" /\ task[u].phone = "a1"
    /\ operation_locks["a1"] = NoTask
    /\ is_connected("a1")
    /\ clients["a1"].in_use_by = "None"

\* get_client of task t returns None in this step
ReturnsNone(t) ==
  /\ task'[t] # task[t]
  /\ task'[t].pc = "idle"
  /\ task'[t].res = "None"

Active(o, a) ==
  /\ run[o].pc \in {"check_cancel", "connect", "logic", "finally"}
  /\ Cur(o) = a

\* C2: for every account at most one operation at a time is between
\* acquiring the account lock and releasing it, whatever the interleaving of
\* runners, waiters and cancel_operation calls.
C2_OneOperationPerAccount ==
  \A a \in Accounts : Cardinality({o \in Ops : Active(o, a)}) <= 1

\* C7: whenever the status of an operation is completed or error, the
\* sub-state of every one of its accounts is completed or error.
C7_TerminalMeansAllTerminal ==
  \A o \in Ops :
    op_status[o] \in Terminal =>
      \A a \in Range(op_phones[o]) : op_accounts[o][a].status \in Terminal

\* the loop over the phones of o is over: complete_operation is running or done
LoopOver(o) == run[o].pc \in {"complete", "flushing", "set_status", "db_complete", "done"}

\* C8: when acquiring the lock of account a times out in operation o, the
\* sub-state of a is 'error' and no logic runs on a, and once the loop of o
\* is over every other account of o has a terminal sub-state.
C8_LockTimeoutIsLocal ==
  \A o \in Ops, a \in Accounts :
    op_accounts[o][a].error = "Lock timeout" =>
      /\ op_accounts[o][a].status = "error"
      /\ ~Active(o, a)
      /\ LoopOver(o) =>
           \A b \in Range(op_phones[o]) \ {a} : op_accounts[o][b].status \in Terminal

(***************************************************************************)
(* Property of the batched writer, checked under SpecFlush.                *)
(***************************************************************************)
\* an update or a log entry of operation o is queued, or taken out of its
\* queue by a flushing thread and not written yet
Unwritten(o) ==
  \/ \E i \in DOMAIN progress_queue : progress_queue[i].op = o
  \/ \E k \in log_queue : k[1] = o
  \/ \E f \in Flushers :
       \/ \E i \in DOMAIN flush[f].progress : flush[f].progress[i].op = o
       \/ \E k \in flush[f].logs : k[1] = o

\* C6: once complete_operation has persisted the terminal state of an
\* operation, every progress update and log entry queued for it before is
\* in durable storage, also while the flush worker is in a flush of its own.
C6_FlushedAtCompletion ==
  \A o \in Ops : run[o].pc = "done" => ~Unwritten(o)

(***************************************************************************)
(* Property of the runner against the pool, checked under SpecBulk.        *)
(***************************************************************************)
\* C9: while an operation holds a connected client of its own for an
\* account, the pool holds no connected client for that account.
C9_NoDoubleSession ==
  \A o \in Ops : mgr_client[o] => ~is_connected(Cur(o))

(***************************************************************************)
(* Properties of the inbox mirror.                                         *)
(***************************************************************************)
\* C3 (SpecInbox): the blue-to-yellow transition of the conversation runs at
\* most once: the first replies in progress and the first_reply rows logged
\* never add up to more than one.
C3_FirstReplyOnce ==
  Cardinality({e \in Events : ev[e].pc = "contact"}) + inbox_events.first_reply <= 1

\* one handler is suspended inside its first reply while the handler of a
\* concurrent event has run to its end without a transition of its own
C3_Witness ==
  \E e \in Events :
    /\ ev[e].pc = "contact"
    /\ inbox_events.new_message >= 1
    /\ inbox_events.first_reply = 0

\* C4 (SpecInbox): last_msg_id of the conversation never decreases.
C4_CursorNeverDecreases ==
  [][conv'.last_msg_id >= conv.last_msg_id]_vars

\* C5 (SpecSync): with local cursor L and remote last id R >= L + 2 within
\* the backfill limit, sync_dialogs marks the conversation for a backfill
\* from L, and the backfill that follows leaves last_msg_id = R, has newly
\* stored exactly L+1..R and cleared needs_backfill.
C5_SyncThenBackfill ==
  [][\A j \in Jobs :
       /\ (/\ job[j].pc = "dialogs"
           /\ job[j].answer >= conv.last_msg_id + 2)
          => /\ job'[j].pc = "messages"
             /\ job'[j].from_msg_id = conv.last_msg_id
             /\ conv'.needs_backfill
       /\ (/\ job[j].pc = "messages" /\ job'[j].pc = "idle"
           /\ remote_last >= job[j].from_msg_id + 2
           /\ remote_last - job[j].from_msg_id <= BackfillLimit)
          => /\ conv'.last_msg_id = remote_last
             /\ messages' \ messages = (job[j].from_msg_id + 1)..remote_last
             /\ ~conv'.needs_backfill
             /\ job'[j].total = remote_last - job[j].from_msg_id]_vars

\* a full_sync has ended whose backfill stored two messages or more
C5_Witness ==
  \E j \in Jobs :
    /\ job[j].pc = "idle"
    /\ job[j].total >= 2
    /\ conv.last_msg_id = remote_last
    /\ ~conv.needs_backfill
    /\ (remote_last - 1) \in messages

\* C13 (SpecInbox): a dialog sync (trigger_dialog_sync) that finds a gap of
\* at most 1 for the conversation ends when the answer of get_dialogs is
\* applied, having issued that one request only; with gap = 1 the message of
\* the dialog is inserted and the cursor set to it in that same step.
C13_GapOneNoExtraCall ==
  [][\A j \in Jobs :
       (/\ job[j].pc = "dialogs" /\ job[j].proc = "dsync" /\ job'[j] # job[j]
        /\ job[j].answer - conv.last_msg_id <= 1)
       => /\ job[j].calls = 1
          /\ job'[j].pc = "idle"
          /\ job[j].answer - conv.last_msg_id = 1
             => /\ messages' = messages \cup {job[j].answer}
                /\ conv'.last_msg_id = job[j].answer
                /\ conv'.needs_backfill = conv.needs_backfill]_vars

\* the only message of the dialog is stored and the cursor is on it although
\* no event was handled, no backfill and no history fetch ran, and nothing
\* is in flight: a dialog sync took it from the dialog summary
C13_Witness ==
  /\ remote_last = 1 /\ messages = {1}
  /\ conv.last_msg_id = 1 /\ ~conv.needs_backfill /\ ~conv.history_fetched
  /\ inbox_events.new_message = 0
  /\ \A e \in Events : ev[e].pc = "idle"
  /\ \A j \in Jobs : job[j] = IdleJob

(***************************************************************************)
(* SpecTable: the four writers of inbox_messages insert messages of one    *)
(* conversation in any order.                                              *)
(***************************************************************************)
TableNext ==
  \E m \in 1..MaxMsg, via \in Sources, text \in Texts : InsertMessage(m, via, text)

SpecTable == Init /\ [][TableNext]_vars

\* C14 (SpecTable): a call of inbox_insert_message for a msg_id that has a row
\* leaves the table as it is (the same rows with the same columns) and
\* returns False, whichever writer calls and whichever writer stored the
\* row; for a msg_id without a row it adds the row and returns True.
C14_DuplicateInsertIgnored ==
  [][IF \E r \in inbox_messages : r.msg_id = insert_call'.row.msg_id
     THEN /\ inbox_messages' = inbox_messages
          /\ insert_call'.inserted = FALSE
     ELSE /\ inbox_messages' = inbox_messages \cup {insert_call'.row}
          /\ Cardinality(inbox_messages') = Cardinality(inbox_messages) + 1
          /\ insert_call'.inserted = TRUE]_vars

\* the last call came for a stored msg_id from another writer and with
\* another text than the stored row has, and returned False
C14_Witness ==
  /\ insert_call.inserted = FALSE
  /\ \E r \in inbox_messages :
       /\ r.msg_id = insert_call.row.msg_id
       /\ r.synced_via = "event" /\ insert_call.row.synced_via = "backfill"
       /\ r.text # insert_call.row.text
  /\ Cardinality(inbox_messages) >= 2

(***************************************************************************)
(* SpecLimiter: callers of one account ask can_send and record sends while *)
(* time passes and limiter instances are rebuilt.                          *)
(***************************************************************************)
InitLimiter == PoolInit /\ OpsInit /\ InboxInit /\ TableInit /\ LedgerInit /\ DialogsInit /\ ConnectInit /\ CallsInit /\ ShutdownInit /\ BackfillsInit /\ UnreadInit /\ TypingInit

LimiterNext ==
  \/ \E peer \in Peers, campaign \in Campaigns : CanSend(peer, campaign)
  \/ \E peer \in Peers, campaign \in Campaigns : RecordSent(peer, campaign)
  \/ Construct
  \/ \E t \in Instants : Tick(t)

SpecLimiter == InitLimiter /\ [][LimiterNext]_vars

\* can_send is called in this step
Asked == dm_answer'.n # dm_answer.n

\* the ledger has a row for the peer and the campaign: record_sent(peer,
\* campaign) was called for the account
Recorded(peer, campaign) ==
  \E i \in DOMAIN dm_history :
    dm_history[i].peer = peer /\ dm_history[i].campaign = campaign

\* no send to the peer was ever recorded
NeverSentTo(peer) == \A i \in DOMAIN dm_history : dm_history[i].peer # peer

\* the sends recorded within the DM_PERIOD_HOURS hours before t
TrailingCount(h, t) ==
  Cardinality({i \in DOMAIN h :
    h[i].sent_at > CURRENT_TIMESTAMP(t) - DM_PERIOD_HOURS * (SecondsPerDay \div 24)})

\* C15 (SpecLimiter): once record_sent(peer, campaign) was called for the
\* account, every can_send(peer, campaign) returns False with one of the two
\* duplicate reasons, whatever the count of the day and the time since the
\* last send, also from a limiter built after the send was recorded.
C15_DuplicateRejected ==
  [][(Asked /\ Recorded(dm_answer'.peer, dm_answer'.campaign))
     => /\ dm_answer'.ok = FALSE
        /\ dm_answer'.reason \in {"Already sent (in-memory cache)",
                                   "Already sent (database)"}]_vars

\* a limiter built after the send found it in the ledger, while the cap of
\* the day was reached and the last send was less than MIN_DELAY_BETWEEN_DMS ago
C15_Witness ==
  /\ dm_answer.reason = "Already sent (database)"
  /\ Recorded(dm_answer.peer, dm_answer.campaign)
  /\ inbox_get_dm_count_today(dm_history, now) >= DM_LIMIT_PER_PERIOD
  /\ last_record # None
  /\ now - last_record < MIN_DELAY_BETWEEN_DMS * TicksPerSecond

\* C16 (SpecLimiter): can_send for a peer never sent to returns False with
\* the daily-limit reason when DM_LIMIT_PER_PERIOD sends or more were
\* recorded in the trailing 24 hours, and is not rejected for the cap when
\* fewer were.
C16_TrailingDayCap ==
  [][(Asked /\ NeverSentTo(dm_answer'.peer))
     => IF TrailingCount(dm_history, now) >= DM_LIMIT_PER_PERIOD
        THEN dm_answer'.ok = FALSE /\ dm_answer'.reason = "Daily limit reached"
        ELSE dm_answer'.reason # "Daily limit reached"]_vars

\* C17 (SpecLimiter): when the last send of the account was recorded t
\* seconds ago, can_send for a peer never sent to, asked while the cap of the
\* day is not reached (the cap is checked first), returns False with a wait
\* of MIN_DELAY_BETWEEN_DMS - t seconds, as the reason prints it, if
\* t < MIN_DELAY_BETWEEN_DMS, and is not rejected for spacing otherwise.
C17_SpacingWait ==
  [][(/\ Asked /\ NeverSentTo(dm_answer'.peer) /\ last_record # None
      /\ inbox_get_dm_count_today(dm_history, now) < DM_LIMIT_PER_PERIOD)
     => IF now - last_record < MIN_DELAY_BETWEEN_DMS * TicksPerSecond
        THEN /\ dm_answer'.ok = FALSE
             /\ dm_answer'.reason = "Wait between DMs"
             /\ dm_answer'.wait
                  = Format0f(MIN_DELAY_BETWEEN_DMS * TicksPerSecond - (now - last_record))
        ELSE dm_answer'.reason # "Wait between DMs"]_vars

(***************************************************************************)
(* SpecRounds: the remote conversation holds 1..remote_last and no longer  *)
(* changes; the mirror holds 1..last_msg_id.  The scheduler's loops        *)
(* (dialog_sync_task, backfill_task: `while self._running`) and full_sync  *)
(* run one after the other, for ever, so a round that can start does.      *)
(***************************************************************************)
\* sizes of the remote conversation and local cursors at the start, on both
\* sides of the limit of backfill_conversation
RemoteSizes == {2, 3, BackfillLimit, BackfillLimit + 1, BackfillLimit + 2,
                BackfillLimit + 3, BackfillLimit + 50}
Cursors == {0, 1, 2}
RoundProcs == {"sync", "dsync", "backfill"}

RoundsInit ==
  /\ remote_last \in RemoteSizes
  /\ \E c \in Cursors :
       /\ conv = [last_msg_id |-> c, needs_backfill |-> FALSE, backfill_from_msg_id |-> 0,
                  contact_status |-> "yellow", history_fetched |-> FALSE]
       /\ messages = 1..c
  /\ inbox_events = [new_message |-> 0, first_reply |-> 0]
  /\ ev = [e \in Events |-> IdleEvent]
  /\ job = [j \in Jobs |-> IdleJob]

InitRounds == PoolInit /\ OpsInit /\ RoundsInit /\ TableInit /\ LimiterInit /\ DialogsInit /\ ConnectInit /\ CallsInit /\ ShutdownInit /\ BackfillsInit /\ UnreadInit /\ TypingInit

RoundsNext ==
  \/ \E j \in SyncJobs, proc \in RoundProcs : Quiet /\ JobStart(j, proc)
  \/ \E j \in SyncJobs : SdApply(j)
  \/ \E j \in SyncJobs : BfApply(j)

SpecRounds == InitRounds /\ [][RoundsNext]_vars /\ WF_vars(RoundsNext)

\* C18: when the remote conversation no longer changes, rounds of
\* sync_dialogs and process_pending_backfills eventually store every remote
\* message newer than the cursor the mirror started with (the mirror starts
\* with 1..cursor, so in the end it holds 1..remote_last), also when the gap
\* exceeds the limit of one backfill.
C18_RoundsCloseGap == <>(messages = 1..remote_last)

(***************************************************************************)
(* SpecRun: operations started and cancelled over HTTP and the loops of    *)
(* their runner threads, up to the call of complete_operation.  The runner *)
(* threads are scheduled: a runner that can take a step of the loop or of  *)
(* run_for_account takes one (acquire returns after its timeout at the     *)
(* latest; connecting and the operation logic are taken to return or       *)
(* raise).                                                                 *)
(***************************************************************************)
RunStep(o) ==
  \/ RunNext(o) \/ RunAcquire(o) \/ RunLockTimeout(o) \/ RunCancelled(o)
  \/ RunAccountNotFound(o) \/ RunReleaseSession(o) \/ RunConnect(o)
  \/ RunConnectFails(o) \/ RunLogicDone(o) \/ RunLogicRaises(o) \/ RunFinally(o)

LoopNext ==
  \/ \E r \in OpsRequests : CreateOperation(r[1], r[2])
  \/ \E o \in Ops : CancelOperation(o)
  \/ \E o \in Ops : RunNext(o)
  \/ \E o \in Ops : RunAcquire(o)
  \/ \E o \in Ops : RunLockTimeout(o)
  \/ \E o \in Ops : RunCancelled(o)
  \/ \E o \in Ops : RunAccountNotFound(o)
  \/ \E o \in Ops : RunReleaseSession(o)
  \/ \E o \in Ops : RunConnect(o)
  \/ \E o \in Ops : RunConnectFails(o)
  \/ \E o \in Ops : RunLogicDone(o)
  \/ \E o \in Ops : RunLogicRaises(o)
  \/ \E o \in Ops : RunFinally(o)

SpecRun == Init /\ [][LoopNext]_vars /\ \A o \in Ops : WF_vars(RunStep(o))

\* run_for_account of o is past the cancellation check, on its way through
\* connect, the operation and the finally block
InRun(o) == run[o].pc \in {"connect", "logic", "finally"}

\* C19: once cancel_operation was accepted for an operation, the account
\* whose run is past the cancellation check goes on to the end of its run
\* (no step leaves the run other than through finally, and the run ends),
\* and no other account of the operation enters connect or the operation
\* logic, nor gets a client of the operation connected.
C19_CancelBetweenAccounts ==
  /\ [][\A o \in Ops :
          op_status[o] = "cancelled" =>
            /\ InRun(o) =>
                 /\ run'[o].idx = run[o].idx \/ (run[o].pc = "finally" /\ run'[o].pc = "next")
                 /\ run'[o].pc \in {"connect", "logic", "finally", "next"}
            /\ ~InRun(o) => ~(InRun(o))'
            /\ (mgr_client'[o] /\ ~mgr_client[o]) => InRun(o)]_vars
  /\ \A o \in Ops : (op_status[o] = "cancelled" /\ InRun(o)) ~> ~InRun(o)

\* the cancellation was accepted while the first of two accounts was in the
\* operation logic
C19_Witness ==
  \E o \in Ops :
    /\ op_status[o] = "cancelled"
    /\ Len(op_phones[o]) = 2
    /\ run[o] = [pc |-> "logic", idx |-> 1]
    /\ mgr_client[o]

DialogsNext ==
  \/ \E is_conn \in BOOLEAN : SdCall(is_conn)
  \/ SdFloodWait
  \/ SdDialogsRaise
  \/ \E dialogs \in DialogLists, fail_at \in 0..Cardinality(DialogPeers) :
       SdDialogs(dialogs, fail_at)

SpecDialogs == Init /\ [][DialogsNext]_vars

\* C21: a sync_dialogs call that returned after a flood wait has the wait in
\* its errors and has processed nothing further; a call that returned after
\* another error in the processing of one peer has the error recorded and
\* has still got to every dialog fetched.
C21_PeerErrorDoesNotAbort ==
  sync_run.pc = "returned" =>
    LET res == sync_run.result IN
    /\ "Rate limited" \in Range(res.errors) => res.reached = 0
    /\ res.dialogs_fetched > 0 => res.reached = res.dialogs_fetched

(***************************************************************************)
(* SpecConnect: accounts are connected one at a time; transports drop.     *)
(***************************************************************************)
ConnectNext ==
  \/ \E a \in Accounts : CaCall(a)
  \/ \E outcome \in Outcomes : CaAttemptEnds(outcome)
  \/ \E c \in connected : ConnectionLost(c)

SpecConnect == Init /\ [][ConnectNext]_vars

\* C22: after a connect attempt that failed because the session is not
\* authorized the recorded state of the account is 'auth_required', after
\* one that failed because the account is banned or deactivated it is
\* 'error'; in both cases the pool holds no connected session of the account.
C22_FailureStateRecorded ==
  LET a == connect_call.phone IN
  connect_call.pc = "returned" =>
    /\ connect_call.outcome \in {"not_authorized", "AuthKeyUnregisteredError"} =>
         connection_state[a] = "auth_required" /\ ~is_connected(a)
    /\ connect_call.outcome = "UserDeactivatedBanError" =>
         connection_state[a] = "error" /\ ~is_connected(a)

(***************************************************************************)
(* SpecGaps: messages pile up while the account is disconnected; syncs and *)
(* backfills run one after the other and a backfill can fail.              *)
(***************************************************************************)
BurstSizes == {1, 2}
GapIds == 0..(2 * Max(BurstSizes))

GapsNext ==
  \/ \E n \in BurstSizes : MissedBurst(n, GapIds)
  \/ \E j \in SyncJobs, proc \in RoundProcs : Quiet /\ JobStart(j, proc)
  \/ \E j \in SyncJobs : SdApply(j)
  \/ \E j \in SyncJobs : BfApply(j)
  \/ \E j \in SyncJobs : BfRaises(j)

SpecGaps == Init /\ [][GapsNext]_vars

\* the id up to which the mirror holds every message of the conversation
Contiguous == Max({n \in 0..remote_last : \A m \in 1..n : m \in messages})

\* C23: while the conversation is flagged needs_backfill, backfill_from_msg_id
\* is never above the id of the last message stored contiguously, also after
\* a later sync_dialogs that found a further gap; and once no backfill is
\* pending or running, no id up to the cursor is missing from the mirror.
C23_BackfillFromStaysLow ==
  /\ conv.needs_backfill => conv.backfill_from_msg_id <= Contiguous
  /\ (Quiet /\ ~conv.needs_backfill) => \A m \in 1..conv.last_msg_id : m \in messages

(***************************************************************************)
(* Properties of the durable operation records.                            *)
(***************************************************************************)
\* C24 (SpecFlush): once an operation has completed and no update of it is
\* queued or held by a flushing thread, the durable progress row of each of
\* its accounts holds the values of the last update_account_progress call
\* for it (the in-memory snapshot).
C24_DurableRowIsLastUpdate ==
  \A o \in Ops :
    (run[o].pc = "done" /\ ~Unwritten(o)) =>
      \A a \in Range(op_phones[o]) : db_accounts[o][a] = op_accounts[o][a]

\* C25 (SpecFlush): once db_complete_operation has stored the terminal status
\* of an operation, the durable status of the operation never changes again.
C25_TerminalStatusIsFinal ==
  [][\A o \in Ops : run[o].pc = "done" => db_status'[o] = db_status[o]]_vars

\* C26 (SpecOps): once cancel_operation has set the status of an operation
\* to 'cancelled', the in-memory status stays 'cancelled' and the durable
\* status never becomes 'completed' or 'running' afterwards.
C26_CancelledIsFinal ==
  [][\A o \in Ops :
       op_status[o] = "cancelled" =>
         /\ op_status'[o] = "cancelled"
         /\ db_status'[o] \in {"completed", "running"} => db_status'[o] = db_status[o]]_vars

\* C27 (SpecOps): the lock of an account is released by the operation that
\* acquired it, and no release performed by an operation or by
\* cancel_operation frees a lock that a different operation holds: whenever
\* a locked account lock becomes unlocked, the step is one of the runner of
\* its holder or the cancellation of its holder.
C27_ReleasedByHolderOnly ==
  [][\A a \in Accounts :
       (account_locks[a] # Unlocked /\ account_locks'[a] = Unlocked) =>
         LET h == account_locks[a] IN
         \/ run'[h] # run[h]
         \/ op_status'[h] # op_status[h]]_vars

(***************************************************************************)
(* SpecCalls: the inbox loop connects and disconnects accounts through the *)
(* pool while a coroutine uses the pooled client.                          *)
(***************************************************************************)
CallsNext ==
  \/ \E t \in InboxTasks, a \in Accounts, reg \in RegisterChoices, cr \in CredChoices :
       GetClient(t, a, reg, cr)
  \/ \E t \in InboxTasks : GcConnectOk(t)
  \/ \E t \in InboxTasks : GcConnectFail(t)
  \/ \E t \in InboxTasks : GcStore(t)
  \/ \E t \in InboxTasks : GcNotAuthorized(t)
  \/ \E t \in InboxTasks : GcAuthRaises(t)
  \/ \E t \in InboxTasks, a \in Accounts : DisconnectAccount(t, a)
  \/ \E t \in InboxTasks : DcBody(t)
  \/ \E t \in InboxTasks : DcDelete(t)
  \/ \E a \in Accounts, request \in Requests : TcBegin(a, request)
  \/ TcEnd

SpecCalls == Init /\ [][CallsNext]_vars

\* C28: while a request on the pooled client of an account is awaited, the
\* caller holds the connect lock or the operation lock of the account, and
\* the client it uses is still the connected client of the pool entry.
C28_CallsUnderMutex ==
  LET a == transport_call.phone IN
  transport_call.pc = "in_call" =>
    /\ locks[a] = Caller \/ operation_locks[a] = Caller
    /\ is_connected(a) /\ clients[a].client = transport_call.cid

(***************************************************************************)
(* SpecHandlers: the pool called by the inbox (register_events=True) and   *)
(* by the operations, whose UnifiedContactManager.init_client passes       *)
(* register_events=False.                                                  *)
(***************************************************************************)
RegisterFlags == {TRUE, FALSE}

HandlersNext ==
  \/ \E t \in Tasks, a \in Accounts, reg \in RegisterFlags, cr \in CredChoices :
       GetClient(t, a, reg, cr)
  \/ \E t \in Tasks : GcAcquire(t)
  \/ \E t \in Tasks : GcConnectOk(t)
  \/ \E t \in Tasks : GcConnectFail(t)
  \/ \E t \in Tasks : GcStore(t)
  \/ \E t \in Tasks : GcNotAuthorized(t)
  \/ \E t \in Tasks : GcAuthRaises(t)
  \/ \E c \in connected : ConnectionLost(c)
  \/ \E t \in Tasks, a \in Accounts : DisconnectAccount(t, a)
  \/ \E t \in Tasks : DcAcquire(t)
  \/ \E t \in Tasks : DcBody(t)
  \/ \E t \in Tasks : DcDelete(t)

SpecHandlers == Init /\ [][HandlersNext]_vars

\* C29: a get_client(register_events=True) that returns a client returns one
\* that has the event handlers registered, whether it returns the pooled
\* client at once or stores a new one; also when the pooled session was
\* created by a call with register_events=False.
C29_HandlersOnReturnedClient ==
  [][\A t \in Tasks, a \in Accounts :
       (/\ \/ \E cr \in CredChoices : GetClient(t, a, TRUE, cr)
           \/ GcStore(t) /\ task[t].phone = a /\ task[t].reg
        /\ task'[t].pc = "idle"
        /\ task'[t].res = "client")
       => clients'[a].handlers]_vars

(***************************************************************************)
(* SpecLocks: coroutines calling get_client, with_client and               *)
(* disconnect_account on the two locks of each account, while the inbox    *)
(* loop may run shutdown (InboxManager.stop).                              *)
(***************************************************************************)
\* the steps of coroutine t that are not the start of a call
TaskStep(t) ==
  \/ GcAcquire(t)
  \/ GcConnectOk(t)
  \/ GcConnectFail(t)
  \/ GcStore(t)
  \/ GcNotAuthorized(t)
  \/ GcAuthRaises(t)
  \/ DcAcquire(t)
  \/ DcBody(t)
  \/ DcDelete(t)
  \/ WcAcquire(t)
  \/ WcExit(t)
  \/ ShLoop(t)

LocksNext ==
  \/ \E t \in Tasks, a \in Accounts, reg \in RegisterChoices, cr \in CredChoices :
       ~InShutdown(t) /\ ~Stopped /\ GetClient(t, a, reg, cr)
  \/ \E t \in Tasks, a \in Accounts : ~InShutdown(t) /\ ~Stopped /\ DisconnectAccount(t, a)
  \/ \E t \in Tasks, a \in Accounts : ~InShutdown(t) /\ ~Stopped /\ WithClient(t, a)
  \/ \E t \in InboxTasks : Shutdown(t)
  \/ \E t \in Tasks : GcAcquire(t)
  \/ \E t \in Tasks : GcConnectOk(t)
  \/ \E t \in Tasks : GcConnectFail(t)
  \/ \E t \in Tasks : GcStore(t)
  \/ \E t \in Tasks : GcNotAuthorized(t)
  \/ \E t \in Tasks : GcAuthRaises(t)
  \/ \E c \in connected : ConnectionLost(c)
  \/ \E t \in Tasks : DcAcquire(t)
  \/ \E t \in Tasks : DcBody(t)
  \/ \E t \in Tasks : DcDelete(t)
  \/ \E t \in Tasks : WcAcquire(t)
  \/ \E t \in Tasks : WcExit(t)
  \/ \E t \in InboxTasks : ShLoop(t)

SpecLocks == Init /\ [][LocksNext]_vars

\* the coroutine waits for a lock
Waiting(t) == task[t].pc \in {"gc_wait", "dc_wait", "wc_wait"}

\* the holder of the lock a waiting coroutine waits for (NoTask: it is free)
Awaited(t) ==
  IF task[t].pc = "wc_wait" THEN operation_locks[task[t].phone] ELSE locks[task[t].phone]

\* inside a call of the pool, or inside shutdown's loop
InCall(t) == task[t].pc # "idle" \/ InShutdown(t)

RECURSIVE WaitsOn(_, _, _)
\* u is reached from t by following holders of awaited locks, in at most n hops
WaitsOn(t, u, n) ==
  /\ n > 0
  /\ Waiting(t)
  /\ Awaited(t) # NoTask
  /\ \/ Awaited(t) = u
     \/ WaitsOn(Awaited(t), u, n - 1)

\* C30: no interleaving of get_client, with_client, disconnect_account and
\* shutdown deadlocks: no coroutine waits for a lock it holds or for one held
\* by a coroutine that (through any chain of lock holders) waits for it; a
\* coroutine that waits for the operation lock holds no connect lock (the
\* operation lock comes first); a coroutine outside any call holds no lock
\* (every exit path released); and every coroutine inside a call can either
\* take a step or waits for a lock that is held.
C30_NoDeadlock ==
  \A t \in Tasks :
    /\ ~WaitsOn(t, t, Cardinality(Tasks))
    /\ task[t].pc = "wc_wait" => \A a \in Accounts : locks[a] # t
    /\ ~InCall(t) => \A a \in Accounts : locks[a] # t /\ operation_locks[a] # t
    /\ InCall(t) => (ENABLED TaskStep(t)) \/ (Waiting(t) /\ Awaited(t) # NoTask)

\* a with_client caller holds both locks of a1 while shutdown waits for the
\* connect lock of a1 and the phones of the pool are not all visited yet
C30_Witness ==
  \E t, u \in Tasks :
    /\ InShutdown(t) /\ task[t].pc = "dc_wait" /\ Awaited(t) = u
    /\ operation_locks[task[t].phone] = u
    /\ shutdown_run.todo # <<>>

(***************************************************************************)
(* SpecLive: an operation from its submission to the end of                *)
(* complete_operation, next to a second operation that takes an account    *)
(* lock and whose run never returns.  The thread of the first operation is *)
(* scheduled: whenever it can take a step it takes one (acquire returns    *)
(* after 60 s at the latest, connecting and the operation logic return or  *)
(* raise, the two flushes of complete_operation write a finite copy).      *)
(***************************************************************************)
Holders == Ops \ SoloOps

\* the steps of the thread run_operation of o, complete_operation included
ThreadStep(o) ==
  \/ RunStep(o)
  \/ FlushTakeProgress(o) \/ FlushWriteProgress(o)
  \/ FlushTakeLogs(o) \/ FlushWriteLog(o)
  \/ CompleteSetStatus(o) \/ CompleteDb(o)

LiveNext ==
  \/ \E r \in OpsRequests : CreateOperation(r[1], r[2])
  \/ \E o \in Ops : CancelOperation(o)
  \/ \E o \in SoloOps : RunNext(o)
  \/ \E o \in SoloOps : RunAcquire(o)
  \/ \E o \in SoloOps : RunLockTimeout(o)
  \/ \E o \in SoloOps : RunCancelled(o)
  \/ \E o \in SoloOps : RunAccountNotFound(o)
  \/ \E o \in SoloOps : RunReleaseSession(o)
  \/ \E o \in SoloOps : RunConnect(o)
  \/ \E o \in SoloOps : RunConnectFails(o)
  \/ \E o \in SoloOps : RunLogicDone(o)
  \/ \E o \in SoloOps : RunLogicRaises(o)
  \/ \E o \in SoloOps : RunFinally(o)
  \/ \E o \in SoloOps : FlushTakeProgress(o)
  \/ \E o \in SoloOps : FlushWriteProgress(o)
  \/ \E o \in SoloOps : FlushTakeLogs(o)
  \/ \E o \in SoloOps : FlushWriteLog(o)
  \/ \E o \in SoloOps : CompleteSetStatus(o)
  \/ \E o \in SoloOps : CompleteDb(o)
  \/ \E h \in Holders : RunNext(h)
  \/ \E h \in Holders : RunAcquire(h)

SpecLive == Init /\ [][LiveNext]_vars /\ \A o \in SoloOps : WF_vars(ThreadStep(o))

\* C31: every submitted operation reaches the end of complete_operation with
\* a terminal status in the registry, also when another holder keeps an
\* account lock for ever (the acquire times out) and when the run of an
\* account raises.
C31_OperationCompletes ==
  \A o \in SoloOps :
    (op_status[o] # "absent") ~> (run[o].pc = "done" /\ op_status[o] \in Terminal)

\* the operation is complete although the acquire of its first account timed
\* out on a lock that is still held, and the run of its second account raised
C31_Witness ==
  \E o \in SoloOps, h \in Holders :
    /\ run[o].pc = "done" /\ op_status[o] \in Terminal
    /\ Len(op_phones[o]) = 2
    /\ op_accounts[o][op_phones[o][1]].error = "Lock timeout"
    /\ account_locks[op_phones[o][1]] = h
    /\ op_accounts[o][op_phones[o][2]].error = "exception"

\* C32 (SpecInbox): when sync_dialogs meets the conversation with a dialog
\* whose last id is at least the local last id plus 2, the row is flagged
\* needs_backfill with backfill_from_msg_id = the local last id as the row
\* held it, the display cursor is refreshed from the dialog, no message is
\* inserted, and get_dialogs was the only request of sync_dialogs: the one
\* request issued in the step is the get_messages of the backfill that the
\* caller (full_sync, trigger_dialog_sync) starts after sync_dialogs returned.
C32_GapFlagsBackfill ==
  [][\A j \in Jobs :
       (/\ job[j].pc = "dialogs" /\ job'[j] # job[j]
        /\ job[j].answer >= conv.last_msg_id + 2)
       => /\ conv'.needs_backfill
          /\ conv'.backfill_from_msg_id = conv.last_msg_id
          /\ conv'.last_msg_id = job[j].answer
          /\ messages' = messages
          /\ job[j].calls = 1
          /\ job'[j].calls = 1 + (IF job'[j].pc = "messages" THEN 1 ELSE 0)]_vars

\* a sync found the dialog at 3 over a row at 1: the row is flagged from 1,
\* only message 1 is stored, and the caller's backfill is in flight
C32_Witness ==
  \E j \in Jobs :
    /\ job[j].pc = "messages" /\ job[j].calls = 2 /\ job[j].proc \in {"sync", "dsync"}
    /\ conv.needs_backfill /\ conv.backfill_from_msg_id = 1 /\ conv.last_msg_id = 3
    /\ messages = {1}

(***************************************************************************)
(* SpecBackfills: runs of process_pending_backfills over the conversations *)
(* of one account while sync_dialogs flags them.                           *)
(***************************************************************************)
BackfillErrors == {"Rate limited", "error"}

\* the last message ids a dialog of the account can show
PeerMsgIds == {1, 2, 3}

BackfillsNext ==
  \/ \E p \in DialogPeers, d \in PeerMsgIds : SdPeer(p, d)
  \/ \E ord \in Orders({p \in DialogPeers : peer_rows[p].needs_backfill}),
        is_conn \in BOOLEAN, r \in PeerMsgIds : PpbCall(ord, is_conn, r)
  \/ BcAnswer
  \/ \E error \in BackfillErrors : BcFails(error)
  \/ \E is_conn \in BOOLEAN, r \in PeerMsgIds : PpbWake(is_conn, r)

SpecBackfills == Init /\ [][BackfillsNext]_vars

\* C33: in a run of process_pending_backfills, a backfill that fails (rate
\* limit, transport error, account not connected) writes nothing: the
\* conversation keeps its flag and its backfill_from_msg_id, no message is
\* stored; the run goes on, so that when it returns every conversation of its
\* list was attempted, and those whose request answered are not flagged any
\* more when their backfill ends.
C33_FailedBackfillIsSkipped ==
  /\ [][LET f == backfill_run' k == Len(f.outcomes) IN
        (f.outcomes # backfill_run.outcomes /\ k > 0) =>
          LET p == f.pending[k].peer_id IN
          IF f.outcomes[k] = "ok"
          THEN ~peer_rows'[p].needs_backfill
          ELSE /\ peer_rows' = peer_rows
               /\ stored' = stored
               /\ peer_rows'[p].needs_backfill]_vars
  /\ [](backfill_run.pc = "returned" => Len(backfill_run.outcomes) = Len(backfill_run.pending))

\* a run over two flagged conversations has returned: the first backfill was
\* rate limited and its row is flagged as before, the second one stored the
\* missing messages
C33_Witness ==
  LET f == backfill_run IN
  /\ f.pc = "returned" /\ Len(f.pending) = 2
  /\ f.outcomes = <<"Rate limited", "ok">>
  /\ peer_rows[f.pending[1].peer_id].needs_backfill
  /\ peer_rows[f.pending[1].peer_id].backfill_from_msg_id = f.pending[1].backfill_from_msg_id
  /\ ~peer_rows[f.pending[2].peer_id].needs_backfill
  /\ f.total_backfilled >= 2

(***************************************************************************)
(* SpecUnread: the NewMessage events of one conversation, handled as       *)
(* concurrent tasks of the inbox loop.                                     *)
(***************************************************************************)
UnreadNext ==
  \/ \E e \in Events, incoming \in BOOLEAN : NmEvent(e, incoming)
  \/ \E e \in Events : NmBody(e)

SpecUnread == Init /\ [][UnreadNext]_vars

\* the handlers of incoming events that have not written the row yet
PendingIncoming == {e \in Events : nm[e].pc = "sender" /\ nm[e].incoming}

\* C34: unread_count is the number of incoming NewMessage events whose
\* handler has written the row, whatever the order in which the concurrent
\* handlers resume: n incoming events raise it by exactly n, outgoing events
\* leave it as it is.
C34_UnreadCountsIncoming ==
  unread_row.unread_count + Cardinality(PendingIncoming) = delivered.incoming

\* two incoming events and an outgoing one were handled, the second incoming
\* one before the first (the row ends on message 1): both were counted
C34_Witness ==
  /\ \A e \in Events : nm[e].pc = "idle"
  /\ delivered.incoming = 2 /\ delivered.outgoing = 1
  /\ unread_row.unread_count = 2
  /\ unread_row.last_msg_id = 1

(***************************************************************************)
(* SpecKeys: callers of one account send for two campaigns, or name none.  *)
(***************************************************************************)
\* the campaign_id of the callers: two campaigns, or left out
CampaignIds == {"None", "c1", "c2"}
\* 23:00:00 and 23:00:30 of day 0
KeyInstants == {165600, 165660}

KeysNext ==
  \/ \E peer \in Peers, campaign \in CampaignIds : CanSend(peer, campaign)
  \/ \E peer \in Peers, campaign \in CampaignIds : RecordSent(peer, campaign)
  \/ Construct
  \/ \E t \in KeyInstants : Tick(t)

SpecKeys == Init /\ [][KeysNext]_vars

\* C35: the in-process sent-set rejects only what the persisted ledger would
\* reject for the same (peer, campaign): a can_send answered 'Already sent
\* (in-memory cache)' is one that inbox_check_dm_sent rejects too, so that a
\* send recorded for campaign c1 does not make can_send for campaign c2 a
\* duplicate.
C35_SentSetAgreesWithLedger ==
  dm_answer.reason = "Already sent (in-memory cache)"
    => inbox_check_dm_sent(dm_history, dm_answer.peer, dm_answer.campaign)

\* C36 (SpecLimiter): can_send reports the first failing check in the order
\* in-process sent-set, persisted ledger, daily cap, minimum spacing (a
\* duplicate that is also over the cap is a duplicate, a request over the cap
\* that is also too early is over the cap), and OK when none fails; a ledger
\* hit adds the peer to the in-process set, nothing else changes the limiter
\* or the ledger.
C36_FirstFailingCheckWins ==
  [][Asked =>
       LET peer == dm_answer'.peer
           reason == dm_answer'.reason
           in_set == peer \in limiter.sent_to_ids
           in_ledger == inbox_check_dm_sent(dm_history, peer, dm_answer'.campaign)
           over_cap == inbox_get_dm_count_today(dm_history, now) >= DM_LIMIT_PER_PERIOD
           too_early == /\ limiter.last_dm_time # None
                        /\ now - limiter.last_dm_time < MIN_DELAY_BETWEEN_DMS * TicksPerSecond
       IN
       /\ in_set => reason = "Already sent (in-memory cache)"
       /\ (~in_set /\ in_ledger) => reason = "Already sent (database)"
       /\ (~in_set /\ ~in_ledger /\ over_cap) => reason = "Daily limit reached"
       /\ (~in_set /\ ~in_ledger /\ ~over_cap /\ too_early) => reason = "Wait between DMs"
       /\ (~in_set /\ ~in_ledger /\ ~over_cap /\ ~too_early) => reason = "OK"
       /\ dm_answer'.ok = (reason = "OK")
       /\ limiter' = IF reason = "Already sent (database)"
                     THEN [limiter EXCEPT !.sent_to_ids = @ \cup {peer}]
                     ELSE limiter
       /\ dm_history' = dm_history]_vars

\* a limiter built after the restart was asked about a peer of the ledger
\* while the cap of the day was reached: the answer is the ledger's
\* duplicate, and the peer is now in the in-process set
C36_Witness ==
  /\ dm_answer.reason = "Already sent (database)"
  /\ inbox_get_dm_count_today(dm_history, now) >= DM_LIMIT_PER_PERIOD
  /\ dm_answer.peer \in limiter.sent_to_ids
  /\ limiter.last_dm_time = None

\* C37 (SpecKeys): the ledger holds at most one row per (account, peer,
\* campaign), also for sends recorded without a campaign, and record_sent
\* only appends: the rows the ledger held are still there, unchanged.
C37_OneRowPerKey ==
  /\ [](\A i, j \in DOMAIN dm_history :
          (dm_history[i].peer = dm_history[j].peer
             /\ dm_history[i].campaign = dm_history[j].campaign) => i = j)
  /\ [][/\ Len(dm_history') >= Len(dm_history)
        /\ \A i \in DOMAIN dm_history : dm_history'[i] = dm_history[i]]_vars

(***************************************************************************)
(* SpecHistory: the user opens one conversation again and again            *)
(* (fetch_full_history, one call after the other) while messages reach     *)
(* Telegram and Telegram may answer a request with a flood wait.           *)
(***************************************************************************)
HistoryJobs == {1}

HistoryNext ==
  \/ MessageMissed
  \/ \E e \in SyncEvents : MessageArrives(e)
  \/ \E e \in SyncEvents : HnmBody(e)
  \/ \E e \in SyncEvents : HnmFirstReplyEnd(e)
  \/ \E j \in HistoryJobs : JobStart(j, "history")
  \/ \E j \in HistoryJobs : FhBatch(j)
  \/ \E j \in HistoryJobs : FhLatest(j)
  \/ \E j \in HistoryJobs : FhFloodWait(j)

SpecHistory == Init /\ [][HistoryNext]_vars

\* C38: once a run of fetch_full_history has marked the history fetched, a
\* later call issues no request and inserts nothing (it returns at once); a
\* run that a flood wait aborts leaves the fetched flag unset.
C38_FetchOnceOrNotAtAll ==
  [][\A j \in HistoryJobs :
       /\ (conv.history_fetched /\ job[j].pc = "idle")
            => /\ job'[j].pc = "idle"
               /\ job'[j].calls = 0
               /\ messages' \ messages \subseteq {ev[e].msg : e \in Events}
       /\ FhFloodWait(j) => ~conv'.history_fetched]_vars

(***************************************************************************)
(* SpecTyping: peers of two accounts type now and then; the loop lets time *)
(* pass and runs every expire_typing task whose sleep is over.             *)
(***************************************************************************)
TypingNext ==
  \/ \E a \in TypingAccounts, p \in TypingPeers : handle_typing(a, p)
  \/ TypingTick
  \/ \E k \in TypingKeys : expire_typing(k)

SpecTyping ==
  /\ Init /\ [][TypingNext]_vars
  /\ WF_vars(TypingTick)
  /\ \A k \in TypingKeys : WF_vars(expire_typing(k))

\* the expire_typing tasks of key k that have not run yet
PendingTimers(k) == {t \in sleeping : t.key = k}

\* C39: each key has at most one pending expiry timer; is_typing False is
\* broadcast only when TypingTimeout seconds have passed since the last
\* typing event of the key; and a pending timer leads to that broadcast
\* unless a newer typing event of the key comes first.
C39_OneTimerPerKey ==
  /\ [](\A k \in TypingKeys : Cardinality(PendingTimers(k)) <= 1)
  /\ [][\A k \in TypingKeys :
          (typing_shown[k] /\ ~typing_shown'[k]) => since[k] = TypingTimeout]_vars
  /\ \A k \in TypingKeys :
       (typing_timers[k] # NoTimer) ~> (~typing_shown[k] \/ since[k] = 0)

\* a timer that replaced a cancelled one has run down and is about to
\* broadcast is_typing False, while another key has a timer still asleep
C39_Witness ==
  \E k, m \in TypingKeys :
    /\ rearmed[k] /\ typing_timers[k] = 0 /\ typing_shown[k]
    /\ PendingTimers(k) = {[key |-> k, left |-> 0]}
    /\ m # k /\ typing_timers[m] \notin {NoTimer, 0}

=============================================================================
